---------------------------- MODULE Spec2Model ----------------------------
(* A model of the IRMA client session (src/session.go): version             *)
(* negotiation, the session's steps and the callbacks it makes on the        *)
(* embedder's Handler, on the transport and on the keyshare sub-session.     *)
(* Strings whose characters the code inspects (the QR's protocol versions)   *)
(* are sequences of one-character strings; the other strings are atoms.      *)
EXTENDS Integers, Sequences, FiniteSets, TLC

(***************************************************************************)
(* Bounds of the model.                                                    *)
(***************************************************************************)
\* Major numbers 1..MaxMajor occur in the QR's protocol versions.
MaxMajor == 2
\* Minor numbers 0..MaxMinor occur in the QR's protocol versions.
MaxMinor == 10
\* CheckSatisfiability reports 0..MaxMissing missing disjunctions.
MaxMissing == 2

(***************************************************************************)
(* Values.                                                                 *)
(***************************************************************************)
ActionDisclosing == "disclosing"
ActionSigning == "signing"
ActionIssuing == "issuing"
ActionUnknown == "unknown"

\* The values of qr.Type: the three actions, ActionUnknown and one string
\* that is no Action constant at all.
QrTypes == {ActionDisclosing, ActionSigning, ActionIssuing, ActionUnknown, "redirect"}

StatusCommunicating == "communicating"
StatusConnected == "connected"

ErrorProtocolVersionNotSupported == "protocolVersionNotSupported"
ErrorUnknownAction == "unknownAction"
ErrorInvalidJWT == "invalidJwt"
ErrorCrypto == "crypto"
ErrorRejected == "rejected"
ErrorKeyshare == "keyshare"
ErrorKeyshareBlocked == "keyshareBlocked"

\* The error code of the *Error that transport.Get and transport.Post return.
TransportErrors == {"transport"}

\* Bodies of the response to POST proofs.
Bodies == {"VALID", "INVALID", ""}

\* The choice the embedder passes to the PermissionHandler (nil or a choice).
Choices == {"nil", "attrs"}

\* Durations (seconds) reported by KeyshareBlocked.
Durations == {0, 60}

Digits == <<"0", "1", "2", "3", "4", "5", "6", "7", "8", "9">>

(***************************************************************************)
(* Version negotiation.                                                    *)
(***************************************************************************)
\* Supported protocol versions. Minor version numbers should be reverse sorted.
supportedVersions == [major \in {2} |-> <<2, 1>>]

\* strconv.Atoi of a one-character string: its digit, or an error.
Atoi(c) ==
    IF \E d \in 1..10 : Digits[d] = c
    THEN [err |-> FALSE, val |-> (CHOOSE d \in 1..10 : Digits[d] = c) - 1]
    ELSE [err |-> TRUE, val |-> 0]

\* The decimal rendering of n >= 0 (fmt's %d).
RECURSIVE Itoa(_)
Itoa(n) ==
    IF n < 10 THEN <<Digits[n + 1]>>
    ELSE Itoa(n \div 10) \o <<Digits[(n % 10) + 1]>>

\* fmt.Sprintf("%d.%d", major, minor)
VersionString(major, minor) == Itoa(major) \o <<".">> \o Itoa(minor)

\* sort.Sort(sort.Reverse(sort.IntSlice(keys))): the keys, biggest first.
RECURSIVE SortedKeys(_)
SortedKeys(keys) ==
    IF keys = {} THEN <<>>
    ELSE LET k == CHOOSE x \in keys : \A y \in keys : y <= x
         IN <<k>> \o SortedKeys(keys \ {k})

aboveMinimum(major, minor, minmajor, minminor) ==
    major > minmajor \/ (major = minmajor /\ minor >= minminor)

underMaximum(major, minor, maxmajor, maxminor) ==
    major < maxmajor \/ (major = maxmajor /\ minor <= maxminor)

\* The inner loop of calcVersion over supportedVersions[major], from index i.
RECURSIVE MinorLoop(_, _, _, _, _, _)
MinorLoop(major, i, minmajor, minminor, maxmajor, maxminor) ==
    LET minors == supportedVersions[major] IN
    IF i > Len(minors) THEN [found |-> FALSE, version |-> <<>>]
    ELSE IF /\ aboveMinimum(major, minors[i], minmajor, minminor)
            /\ underMaximum(major, minors[i], maxmajor, maxminor)
         THEN [found |-> TRUE, version |-> VersionString(major, minors[i])]
         ELSE MinorLoop(major, i + 1, minmajor, minminor, maxmajor, maxminor)

\* The outer loop of calcVersion over the sorted keys, from index k.
RECURSIVE MajorLoop(_, _, _, _, _, _)
MajorLoop(keys, k, minmajor, minminor, maxmajor, maxminor) ==
    IF k > Len(keys) THEN [found |-> FALSE, version |-> <<>>]
    ELSE LET r == MinorLoop(keys[k], 1, minmajor, minminor, maxmajor, maxminor)
         IN IF r.found THEN r
            ELSE MajorLoop(keys, k + 1, minmajor, minminor, maxmajor, maxminor)

\* calcVersion(qr): bytes 0 and 2 of each version string are parsed with Atoi.
calcVersion(q) ==
    LET minmajor == Atoi(q.ProtocolVersion[1])
        minminor == Atoi(q.ProtocolVersion[3])
        maxmajor == Atoi(q.ProtocolMaxVersion[1])
        maxminor == Atoi(q.ProtocolMaxVersion[3])
    IN IF minmajor.err \/ minminor.err \/ maxmajor.err \/ maxminor.err
       THEN [err |-> TRUE, version |-> <<>>]
       ELSE LET r == MajorLoop(SortedKeys(DOMAIN supportedVersions), 1,
                               minmajor.val, minminor.val, maxmajor.val, maxminor.val)
            IN [err |-> ~r.found, version |-> r.version]

\* The version strings a QR carries: "major.minor" in decimal.
QrVersions == {VersionString(ma, mi) : ma \in 1..MaxMajor, mi \in 0..MaxMinor}

Qrs == [Type : QrTypes, ProtocolVersion : QrVersions, ProtocolMaxVersion : QrVersions]


(***************************************************************************)
(* The state of one session.                                               *)
(***************************************************************************)
VARIABLES
    pc,          \* what is scheduled next: "idle" (NewSession not yet called),
                 \* "start" (go session.start()), "asked" (the PermissionHandler
                 \* is with the embedder), "do" (go session.do(proceed)),
                 \* "keyshare" (the keyshare sub-session runs), "done" (nothing)
    qr,          \* the Qr passed to NewSession
    Action,      \* session.Action
    Version,     \* session.Version
    info,        \* session.info: whether GET jwt filled it
    irmaSession, \* session.irmaSession: whether set, and whether Distributed
    choice,      \* session.choice
    proceed,     \* the argument of the scheduled session.do
    trace,       \* the calls made so far on Handler, transport, credential
                 \* manager and keyshare sub-session, in order
    log          \* the credential manager's log

(***************************************************************************)
(* The state of one Configuration and of the directories it works on.      *)
(***************************************************************************)
VARIABLES
    storage,                \* the directory conf.Path: per scheme name, its folder
    assetTrees,             \* the directory conf.assets: per scheme name, its folder
    assets,                 \* whether conf.assets is set (assets != "")
    readOnly,               \* conf.readOnly
    initialized,            \* conf.initialized
    SchemeManagers,         \* conf.SchemeManagers
    DisabledSchemeManagers, \* conf.DisabledSchemeManagers: per id, the Status
                            \* its SchemeManagerError carries
    Issuers,                \* the keys of conf.Issuers
    CredentialTypes,        \* the keys of conf.CredentialTypes
    AttributeTypes,         \* the keys of conf.AttributeTypes
    publicKeys,             \* conf.publicKeys: per issuer and counter, the key
                            \* object
    reverseHashes,          \* conf.reverseHashes
    remote,                 \* per scheme name, the folder its remote serves
    kssPublicKeys,          \* conf.kssPublicKeys: per scheme and number, the
                            \* key object
    keyFiles,               \* the key files of the first scheme: the PublicKeys
                            \* folder of its issuer, its kss-<n>.pem files,
                            \* and what the index lists of them
    allocated,              \* how many key objects were allocated so far
    goroutines,             \* the goroutines that call UpdateSchemeManager,
                            \* and where each of them is
    ret                     \* the last call on the Configuration: its name, its
                            \* arguments, what it returned, and the state before

sessionVars == <<pc, qr, Action, Version, info, irmaSession, choice, proceed, trace, log>>

confVars == <<storage, assetTrees, assets, readOnly, initialized, SchemeManagers,
              DisabledSchemeManagers, Issuers, CredentialTypes, AttributeTypes,
              publicKeys, reverseHashes, kssPublicKeys, remote, keyFiles,
              allocated, goroutines, ret>>

\* The key files, and the count of the key objects made from them.
keyVars == <<keyFiles, allocated>>

vars == <<sessionVars, confVars>>

\* One call: its name, its main argument, further information.
Ev(e, a, i) == [ev |-> e, arg |-> a, info |-> i]

Ok(b) == IF b THEN "ok" ELSE "err"

\* The switch of NewSession with ActionUnknown's case a nop (no fallthrough).
SupportedActionsAndUnknown == {ActionDisclosing, ActionSigning, ActionIssuing, ActionUnknown}

\* The actions for which the switch of NewSession does nothing; the others fail.
SupportedActions == {ActionDisclosing, ActionSigning, ActionIssuing}

\* A fail that reports the failure only when the DELETE went through.
failWhenDeleted(code, errInfo, delOk) ==
    IF delOk THEN <<Ev("DELETE", "", "ok"), Ev("Failure", code, errInfo)>>
    ELSE <<Ev("DELETE", "", "err")>>

\* session.fail: DELETE the session, then Handler.Failure.
fail(code, errInfo, delOk) ==
    <<Ev("DELETE", "", Ok(delOk)), Ev("Failure", code, errInfo)>>

\* startKeyshareSession: the sub-session starts; it ends by calling one of
\* KeyshareDone, KeyshareCancelled, KeyshareBlocked, KeyshareError.
startKeyshareSession(builders) == <<Ev("startKeyshareSession", builders, "")>>

\* A check of the response to POST proofs that also takes an empty body.
responseValidOrEmpty(response) == response \in {"VALID", ""}

\* The check of the response to POST proofs: response != "VALID" is rejected.
responseValid(response) == response = "VALID"

\* session.sendResponse(message). in.post is the outcome of transport.Post
\* ("ok" or the error's code), in.body the body of the response to proofs,
\* in.constructOk whether ConstructCredentials succeeds. PostResult records
\* what transport.Post returned.
sendResponse(act, message, in) ==
    IF act \in {ActionSigning, ActionDisclosing}
    THEN IF in.post # "ok"
         THEN [events |-> <<Ev("POST", "proofs", message), Ev("PostResult", in.post, "")>>
                          \o fail(in.post, "", in.delOk),
               log |-> <<>>]
         ELSE IF ~responseValid(in.body)
         THEN [events |-> <<Ev("POST", "proofs", message), Ev("PostResult", "ok", in.body)>>
                          \o fail(ErrorRejected, in.body, in.delOk),
               log |-> <<>>]
         ELSE [events |-> <<Ev("POST", "proofs", message), Ev("PostResult", "ok", in.body),
                            Ev("createLogEntry", "", ""),
                            Ev("addLogEntry", "", ""), Ev("Success", "", "")>>,
               log |-> <<act>>]
    ELSE IF in.post # "ok"
         THEN [events |-> <<Ev("POST", "commitments", message), Ev("PostResult", in.post, "")>>
                          \o fail(in.post, "", in.delOk),
               log |-> <<>>]
         ELSE IF ~in.constructOk
         THEN [events |-> <<Ev("POST", "commitments", message), Ev("PostResult", "ok", ""),
                            Ev("ConstructCredentials", "", "err")>>
                          \o fail(ErrorCrypto, "", in.delOk),
               log |-> <<>>]
         ELSE [events |-> <<Ev("POST", "commitments", message), Ev("PostResult", "ok", ""),
                            Ev("ConstructCredentials", "", "ok"),
                            Ev("createLogEntry", "", ""),
                            Ev("addLogEntry", "", ""), Ev("Success", "", "")>>,
               log |-> <<act>>]

\* The inputs of one run of session.sendResponse and of the calls it makes.
SendInputs ==
    [post : {"ok"} \cup TransportErrors, body : Bodies,
     constructOk : BOOLEAN, delOk : BOOLEAN]

\* The inputs of one run of session.do: those of sendResponse, and whether the
\* proofs (or the proof builders) are computed without error.
DoInputs ==
    [computeOk : BOOLEAN, post : {"ok"} \cup TransportErrors, body : Bodies,
     constructOk : BOOLEAN, delOk : BOOLEAN]

SessionInit ==
    /\ pc = "idle"
    /\ qr = [Type |-> "", ProtocolVersion |-> <<>>, ProtocolMaxVersion |-> <<>>]
    /\ Action = ""
    /\ Version = <<>>
    /\ info = FALSE
    /\ irmaSession = [set |-> FALSE, distributed |-> FALSE]
    /\ choice = "nil"
    /\ proceed = FALSE
    /\ trace = <<>>
    /\ log = <<>>

\* No Configuration takes part in the runs of one session: nothing is opened,
\* both directories are empty.
NoConfiguration ==
    /\ storage = <<>>
    /\ assetTrees = <<>>
    /\ assets = FALSE
    /\ readOnly = FALSE
    /\ initialized = FALSE
    /\ SchemeManagers = <<>>
    /\ DisabledSchemeManagers = <<>>
    /\ Issuers = {}
    /\ CredentialTypes = {}
    /\ AttributeTypes = {}
    /\ publicKeys = <<>>
    /\ reverseHashes = <<>>
    /\ kssPublicKeys = <<>>
    /\ remote = <<>>
    /\ keyFiles = <<>>
    /\ allocated = 0
    /\ goroutines = <<>>
    /\ ret = <<>>

Init == SessionInit /\ NoConfiguration

\* NewSession(credManager, qr, handler)
NewSession(q, delOk) ==
    /\ pc = "idle"
    /\ qr' = q
    /\ Action' = q.Type
    /\ LET v == calcVersion(q) IN
       IF v.err
       THEN /\ Version' = Version
            /\ trace' = trace \o <<Ev("calcVersion", "err", "")>>
                              \o fail(ErrorProtocolVersionNotSupported, "", delOk)
            /\ pc' = "done"
       ELSE IF q.Type \notin SupportedActions
       THEN /\ Version' = v.version
            /\ trace' = trace \o <<Ev("calcVersion", "ok", "")>>
                              \o fail(ErrorUnknownAction, q.Type, delOk)
            /\ pc' = "done"
       ELSE /\ Version' = v.version
            /\ trace' = trace \o <<Ev("calcVersion", "ok", "")>>
            /\ pc' = "start"
    /\ UNCHANGED <<info, irmaSession, choice, proceed, log>>

\* The inputs of one run of session.start: the outcome of transport.Get ("ok"
\* or the error's code), whether the JWT parses, how many disjunctions
\* CheckSatisfiability reports missing, whether the request is Distributed.
StartInputs ==
    [get : {"ok"} \cup TransportErrors, jwtOk : BOOLEAN, missing : 0..MaxMissing,
     distributed : BOOLEAN, delOk : BOOLEAN]

\* The Ask*Permission call of session.start's switch on session.Action.
AskPermission(act) ==
    IF act = ActionDisclosing THEN Ev("AskVerificationPermission", "", "")
    ELSE IF act = ActionSigning THEN Ev("AskSignaturePermission", "", "")
    ELSE Ev("AskIssuancePermission", "", "")

\* session.start(): the calls it makes, where the session is afterwards and
\* the fields it sets.
start(act, in) ==
    IF in.get # "ok"
    THEN [events |-> <<Ev("StatusUpdate", StatusCommunicating, ""), Ev("GET", "jwt", in.get)>>
                     \o fail(in.get, "", in.delOk),
          pc |-> "done", info |-> FALSE,
          irmaSession |-> [set |-> FALSE, distributed |-> FALSE]]
    ELSE IF ~in.jwtOk
    THEN [events |-> <<Ev("StatusUpdate", StatusCommunicating, ""), Ev("GET", "jwt", "ok"),
                       Ev("parseRequestorJwt", "", "err")>>
                     \o fail(ErrorInvalidJWT, "", in.delOk),
          pc |-> "done", info |-> TRUE,
          irmaSession |-> [set |-> FALSE, distributed |-> FALSE]]
    ELSE IF in.missing > 0
    THEN [events |-> <<Ev("StatusUpdate", StatusCommunicating, ""), Ev("GET", "jwt", "ok"),
                       Ev("parseRequestorJwt", "", "ok"),
                       Ev("CheckSatisfiability", in.missing, ""),
                       Ev("UnsatisfiableRequest", in.missing, "")>>,
          pc |-> "done", info |-> TRUE,
          irmaSession |-> [set |-> TRUE, distributed |-> in.distributed]]
    ELSE [events |-> <<Ev("StatusUpdate", StatusCommunicating, ""), Ev("GET", "jwt", "ok"),
                       Ev("parseRequestorJwt", "", "ok"),
                       Ev("CheckSatisfiability", in.missing, ""),
                       Ev("StatusUpdate", StatusConnected, ""),
                       AskPermission(act)>>,
          pc |-> "asked", info |-> TRUE,
          irmaSession |-> [set |-> TRUE, distributed |-> in.distributed]]

\* A start that does not return after Handler.UnsatisfiableRequest.
StartNoReturn(in) ==
    /\ pc = "start"
    /\ LET r == start(Action, in)
           unsat == r.events # <<>> /\ r.events[Len(r.events)].ev = "UnsatisfiableRequest"
       IN
       /\ trace' = trace \o r.events
                         \o (IF unsat THEN <<Ev("StatusUpdate", StatusConnected, ""),
                                              AskPermission(Action)>>
                             ELSE <<>>)
       /\ pc' = IF unsat THEN "asked" ELSE r.pc
       /\ info' = r.info
       /\ irmaSession' = r.irmaSession
    /\ UNCHANGED <<qr, Action, Version, choice, proceed, log>>

\* go session.start()
Start(in) ==
    /\ pc = "start"
    /\ LET r == start(Action, in) IN
       /\ trace' = trace \o r.events
       /\ pc' = r.pc
       /\ info' = r.info
       /\ irmaSession' = r.irmaSession
    /\ UNCHANGED <<qr, Action, Version, choice, proceed, log>>

\* A PermissionHandler that schedules session.do(true) whatever the answer.
PermissionCallbackProceeds(p, c) ==
    /\ pc = "asked"
    /\ choice' = c
    /\ proceed' = TRUE
    /\ trace' = trace \o <<Ev("callback", IF p THEN "true" ELSE "false", c)>>
    /\ pc' = "do"
    /\ UNCHANGED <<qr, Action, Version, info, irmaSession, log>>

\* The embedder answers the PermissionHandler that session.start passed to
\* Ask*Permission (once): the callback stores the choice and schedules
\* session.do.
PermissionCallback(p, c) ==
    /\ pc = "asked"
    /\ choice' = c
    /\ proceed' = p
    /\ trace' = trace \o <<Ev("callback", IF p THEN "true" ELSE "false", c)>>
    /\ pc' = "do"
    /\ UNCHANGED <<qr, Action, Version, info, irmaSession, log>>

\* The proof computation of session.do on the local path.
LocalProofs(act, ok) ==
    IF act = ActionIssuing THEN Ev("IssueCommitments", "", Ok(ok))
    ELSE Ev("Proofs", act, Ok(ok))

\* The proof builders of session.do on the keyshare path.
Builders(act, ok) ==
    IF act = ActionIssuing THEN Ev("IssuanceProofBuilders", "", Ok(ok))
    ELSE Ev("ProofBuilders", "", Ok(ok))

\* A session.do that computes the proofs locally whether or not the request is
\* distributed.
doAlwaysLocal(act, p, distributed, in) ==
    IF ~p
    THEN [events |-> <<Ev("DELETE", "", Ok(in.delOk)), Ev("Cancelled", "", "")>>,
          log |-> <<>>, pc |-> "done"]
    ELSE IF ~in.computeOk
    THEN [events |-> <<Ev("StatusUpdate", StatusCommunicating, ""),
                       LocalProofs(act, FALSE)>>
                     \o fail(ErrorCrypto, "", in.delOk),
          log |-> <<>>, pc |-> "done"]
    ELSE [events |-> <<Ev("StatusUpdate", StatusCommunicating, ""),
                       LocalProofs(act, TRUE)>> \o sendResponse(act, "local", in).events,
          log |-> sendResponse(act, "local", in).log, pc |-> "done"]

\* session.do(proceed): the calls it makes, the log entries it appends and
\* where the session is afterwards.
do(act, p, distributed, in) ==
    IF ~p
    THEN [events |-> <<Ev("DELETE", "", Ok(in.delOk)), Ev("Cancelled", "", "")>>,
          log |-> <<>>, pc |-> "done"]
    ELSE IF ~distributed
    THEN IF ~in.computeOk
         THEN [events |-> <<Ev("StatusUpdate", StatusCommunicating, ""),
                            LocalProofs(act, FALSE)>>
                          \o fail(ErrorCrypto, "", in.delOk),
               log |-> <<>>, pc |-> "done"]
         ELSE LET r == sendResponse(act, "local", in) IN
              [events |-> <<Ev("StatusUpdate", StatusCommunicating, ""),
                            LocalProofs(act, TRUE)>> \o r.events,
               log |-> r.log, pc |-> "done"]
    ELSE \* an error of the builders is reported with fail, and the code goes on
         [events |-> <<Ev("StatusUpdate", StatusCommunicating, ""),
                       Builders(act, in.computeOk)>>
                     \o (IF ~in.computeOk THEN fail(ErrorCrypto, "", in.delOk) ELSE <<>>)
                     \o startKeyshareSession(IF in.computeOk THEN "builders" ELSE "nil"),
          log |-> <<>>, pc |-> "keyshare"]

\* A session.do that sends the response once more when the POST failed.
DoRetriesPost(in) ==
    /\ pc = "do"
    /\ LET r == do(Action, proceed, irmaSession.distributed, in)
           failed == /\ in.post # "ok"
                     /\ \E i \in 1..Len(r.events) : r.events[i].ev = "POST"
           again == sendResponse(Action, "local", [in EXCEPT !.post = "ok"])
       IN
       /\ trace' = trace \o r.events \o (IF failed THEN again.events ELSE <<>>)
       /\ log' = log \o r.log \o (IF failed THEN again.log ELSE <<>>)
       /\ pc' = r.pc
    /\ UNCHANGED <<qr, Action, Version, info, irmaSession, choice, proceed>>

\* go session.do(proceed)
Do(in) ==
    /\ pc = "do"
    /\ LET r == do(Action, proceed, irmaSession.distributed, in) IN
       /\ trace' = trace \o r.events
       /\ log' = log \o r.log
       /\ pc' = r.pc
    /\ UNCHANGED <<qr, Action, Version, info, irmaSession, choice, proceed>>

\* session.KeyshareDone(message)
KeyshareDone(in) ==
    /\ pc = "keyshare"
    /\ LET r == sendResponse(Action, "keyshare", in) IN
       /\ trace' = trace \o <<Ev("KeyshareDone", "keyshare", "")>> \o r.events
       /\ log' = log \o r.log
    /\ pc' = "done"
    /\ UNCHANGED <<qr, Action, Version, info, irmaSession, choice, proceed>>

\* session.KeyshareCancelled()
KeyshareCancelled(delOk) ==
    /\ pc = "keyshare"
    /\ trace' = trace \o <<Ev("KeyshareCancelled", "", ""),
                           Ev("DELETE", "", Ok(delOk)), Ev("Cancelled", "", "")>>
    /\ pc' = "done"
    /\ UNCHANGED <<qr, Action, Version, info, irmaSession, choice, proceed, log>>

\* session.KeyshareBlocked(duration)
KeyshareBlocked(duration, delOk) ==
    /\ pc = "keyshare"
    /\ trace' = trace \o <<Ev("KeyshareBlocked", "", "")>>
                      \o fail(ErrorKeyshareBlocked, Itoa(duration), delOk)
    /\ pc' = "done"
    /\ UNCHANGED <<qr, Action, Version, info, irmaSession, choice, proceed, log>>

\* session.KeyshareError(err)
KeyshareError(delOk) ==
    /\ pc = "keyshare"
    /\ trace' = trace \o <<Ev("KeyshareError", "", "")>> \o fail(ErrorKeyshare, "", delOk)
    /\ pc' = "done"
    /\ UNCHANGED <<qr, Action, Version, info, irmaSession, choice, proceed, log>>

\* The session never touches the Configuration's directories or maps.
Next ==
    \/ \E q \in Qrs, delOk \in BOOLEAN : NewSession(q, delOk) /\ UNCHANGED confVars
    \/ \E in \in StartInputs : Start(in) /\ UNCHANGED confVars
    \/ \E p \in BOOLEAN, c \in Choices : PermissionCallback(p, c) /\ UNCHANGED confVars
    \/ \E in \in DoInputs : Do(in) /\ UNCHANGED confVars
    \/ \E in \in SendInputs : KeyshareDone(in) /\ UNCHANGED confVars
    \/ \E delOk \in BOOLEAN : KeyshareCancelled(delOk) /\ UNCHANGED confVars
    \/ \E duration \in Durations, delOk \in BOOLEAN :
          KeyshareBlocked(duration, delOk) /\ UNCHANGED confVars
    \/ \E delOk \in BOOLEAN : KeyshareError(delOk) /\ UNCHANGED confVars

Spec == Init /\ [][Next]_vars


(***************************************************************************)
(* Reading the trace.                                                      *)
(***************************************************************************)
Idx == 1..Len(trace)

\* The calls that end a session for the embedder.
TerminalCalls == {"Success", "Cancelled", "Failure", "UnsatisfiableRequest"}
AskCalls == {"AskVerificationPermission", "AskSignaturePermission", "AskIssuancePermission"}
ProofCalls == {"Proofs", "IssueCommitments"}
BuilderCalls == {"ProofBuilders", "IssuanceProofBuilders"}

Terminals == {i \in Idx : trace[i].ev \in TerminalCalls}

\* Whether a call of one of the names in S was made.
Called(S) == \E i \in Idx : trace[i].ev \in S

\* The index of the first call of one of the names in S; 0 when there is none.
PosOf(S) ==
    IF Called(S)
    THEN CHOOSE i \in Idx : trace[i].ev \in S /\ \A j \in 1..(i - 1) : trace[j].ev \notin S
    ELSE 0

\* How many calls of the name e were made.
Count(e) == Cardinality({i \in Idx : trace[i].ev = e})

(***************************************************************************)
(* C1: every session started with NewSession reaches exactly one terminal  *)
(* outcome: the Handler receives at most one call among Success, Cancelled, *)
(* Failure and UnsatisfiableRequest, and exactly one once the session has   *)
(* nothing left to run.                                                     *)
(***************************************************************************)
C1_ExactlyOneOutcome ==
    /\ Cardinality(Terminals) <= 1
    /\ pc = "done" => Cardinality(Terminals) = 1

(***************************************************************************)
(* C2: a POST is sent only after, in this order, version negotiation, a     *)
(* successful GET jwt, a satisfiability check that found nothing missing,   *)
(* an Ask*Permission call, the embedder's answer proceed=true and the proof *)
(* computation: on the local path the proofs or commitments computed        *)
(* without error, on the keyshare path the proof builders, the keyshare     *)
(* sub-session and its KeyshareDone.                                        *)
(***************************************************************************)
C2_PostOnlyAfterConsent ==
    \A i \in Idx : trace[i].ev = "POST" =>
        LET a == PosOf({"calcVersion"})
            b == PosOf({"GET"})
            c == PosOf({"CheckSatisfiability"})
            d == PosOf(AskCalls)
            e == PosOf({"callback"})
        IN /\ 0 < a /\ a < b /\ b < c /\ c < d /\ d < e /\ e < i
           /\ trace[a].arg = "ok"
           /\ trace[b].info = "ok"
           /\ trace[c].arg = 0
           /\ trace[e].arg = "true"
           /\ IF trace[i].info = "local"
              THEN LET f == PosOf(ProofCalls)
                   IN e < f /\ f < i /\ trace[f].info = "ok"
              ELSE LET f == PosOf(BuilderCalls)
                       g == PosOf({"startKeyshareSession"})
                       h == PosOf({"KeyshareDone"})
                   IN e < f /\ f < g /\ g < h /\ h < i

\* A session that was approved and has sent its POST.
C2_Witness ==
    /\ pc = "done"
    /\ Called({"POST"})
    /\ \E i \in Idx : trace[i].ev = "callback" /\ trace[i].arg = "true"

(***************************************************************************)
(* C3: when the embedder answers proceed=false, or the keyshare             *)
(* sub-session reports KeyshareCancelled, the session sends DELETE and then *)
(* calls Cancelled, and it computes no proofs, sends no POST, appends no    *)
(* log entry and never calls Success or Failure.                            *)
(***************************************************************************)
C3_CancelIsClean ==
    /\ \A i \in Idx :
         (trace[i].ev = "callback" /\ trace[i].arg = "false" /\ pc = "done") =>
            /\ Len(trace) = i + 2
            /\ trace[i + 1].ev = "DELETE"
            /\ trace[i + 2].ev = "Cancelled"
            /\ log = <<>>
            /\ ~Called(ProofCalls \cup {"POST", "Success", "Failure"})
    /\ \A i \in Idx :
         trace[i].ev = "KeyshareCancelled" =>
            /\ Len(trace) = i + 2
            /\ trace[i + 1].ev = "DELETE"
            /\ trace[i + 2].ev = "Cancelled"
            /\ log = <<>>
            /\ ~Called(ProofCalls \cup {"POST", "Success", "Failure"})

(***************************************************************************)
(* C4: when CheckSatisfiability reports at least one missing disjunction,   *)
(* the session calls UnsatisfiableRequest with what is missing and stops:   *)
(* that call is the last the session makes, and no Ask*Permission, no proof *)
(* computation and no POST occurs in the session.                           *)
(***************************************************************************)
C4_UnsatisfiableStops ==
    /\ \A i \in Idx :
         (trace[i].ev = "CheckSatisfiability" /\ trace[i].arg > 0) =>
            /\ Len(trace) = i + 1
            /\ trace[i + 1].ev = "UnsatisfiableRequest"
            /\ trace[i + 1].arg = trace[i].arg
    /\ Called({"UnsatisfiableRequest"}) =>
            /\ pc = "done"
            /\ trace[Len(trace)].ev = "UnsatisfiableRequest"
            /\ ~Called(AskCalls \cup ProofCalls \cup BuilderCalls \cup {"POST", "callback"})

\* A session whose request misses a disjunction.
C4_Witness ==
    \E i \in Idx : trace[i].ev = "CheckSatisfiability" /\ trace[i].arg > 0

(***************************************************************************)
(* C5: every error of a session goes through fail: the call that failed is  *)
(* followed by a DELETE and then by Handler.Failure with the error code of  *)
(* that error, whether or not the DELETE succeeded; and Handler.Failure is  *)
(* called in no other way.                                                  *)
(***************************************************************************)
\* The error code of the error that the call at index i produced, "" if none.
ErrorOf(i) ==
    LET e == trace[i] IN
    CASE e.ev = "calcVersion" /\ e.arg = "err" -> ErrorProtocolVersionNotSupported
      [] e.ev = "calcVersion" /\ e.arg = "ok"
         /\ Action \notin {ActionDisclosing, ActionSigning, ActionIssuing} -> ErrorUnknownAction
      [] e.ev = "GET" /\ e.info # "ok" -> e.info
      [] e.ev = "parseRequestorJwt" /\ e.info = "err" -> ErrorInvalidJWT
      [] e.ev \in ProofCalls \cup BuilderCalls /\ e.info = "err" -> ErrorCrypto
      [] e.ev = "PostResult" /\ e.arg # "ok" -> e.arg
      [] e.ev = "PostResult" /\ e.arg = "ok"
         /\ trace[i - 1].arg = "proofs" /\ e.info # "VALID" -> ErrorRejected
      [] e.ev = "ConstructCredentials" /\ e.info = "err" -> ErrorCrypto
      [] e.ev = "KeyshareBlocked" -> ErrorKeyshareBlocked
      [] e.ev = "KeyshareError" -> ErrorKeyshare
      [] OTHER -> ""

\* C5: every failing call is followed by DELETE and then Failure with its
\* error code, whatever the DELETE's result, and every Failure comes from fail.
C5_ErrorsGoThroughFail ==
    /\ \A i \in Idx :
         ErrorOf(i) # "" =>
            /\ i + 2 <= Len(trace)
            /\ trace[i + 1].ev = "DELETE"
            /\ trace[i + 2].ev = "Failure"
            /\ trace[i + 2].arg = ErrorOf(i)
    /\ \A j \in Idx :
         trace[j].ev = "Failure" =>
            /\ j > 2
            /\ trace[j - 1].ev = "DELETE"
            /\ ErrorOf(j - 2) = trace[j].arg

\* A failure reported after a DELETE that did not succeed.
C5_Witness ==
    \E j \in Idx :
        /\ trace[j].ev = "Failure"
        /\ j > 1 /\ trace[j - 1].ev = "DELETE" /\ trace[j - 1].info = "err"


(***************************************************************************)
(* C6: in a disclosure or signature session the response to POST proofs     *)
(* decides the outcome: the body "VALID" is followed by the log entry and   *)
(* Handler.Success, every other body by fail with error code Rejected       *)
(* carrying that body, and then Success is never called.                    *)
(***************************************************************************)
C6_ProofsBodyDecides ==
    /\ \A i \in Idx :
         trace[i].ev = "POST" =>
            (trace[i].arg = "proofs" <=> Action \in {ActionDisclosing, ActionSigning})
    /\ \A i \in Idx :
         (trace[i].ev = "PostResult" /\ trace[i].arg = "ok" /\ trace[i - 1].arg = "proofs") =>
            IF trace[i].info = "VALID"
            THEN /\ Len(trace) = i + 3
                 /\ trace[i + 3].ev = "Success"
            ELSE /\ Len(trace) = i + 2
                 /\ trace[i + 2].ev = "Failure"
                 /\ trace[i + 2].arg = ErrorRejected
                 /\ trace[i + 2].info = trace[i].info
                 /\ ~Called({"Success"})

\* A session whose proofs the server answered with the empty body.
C6_Witness ==
    \E i \in Idx :
        /\ trace[i].ev = "PostResult" /\ trace[i].arg = "ok"
        /\ trace[i - 1].arg = "proofs" /\ trace[i].info = ""
        /\ Action = ActionSigning

(***************************************************************************)
(* The QR's versions as numbers, and the supported versions in its range.  *)
(***************************************************************************)
\* The value of a decimal numeral.
RECURSIVE DecimalValue(_)
DecimalValue(s) ==
    IF s = <<>> THEN 0
    ELSE DecimalValue(SubSeq(s, 1, Len(s) - 1)) * 10 + Atoi(s[Len(s)]).val

\* The pair (major, minor) that a string "major.minor" denotes.
PairOf(s) ==
    LET dot == CHOOSE i \in 1..Len(s) : s[i] = "."
    IN <<DecimalValue(SubSeq(s, 1, dot - 1)), DecimalValue(SubSeq(s, dot + 1, Len(s)))>>

\* The lexicographic order on (major, minor).
Leq(a, b) == a[1] < b[1] \/ (a[1] = b[1] /\ a[2] <= b[2])

\* The pairs of the supported table.
SupportedPairs ==
    UNION {{<<ma, supportedVersions[ma][i]>> : i \in 1..Len(supportedVersions[ma])} :
           ma \in DOMAIN supportedVersions}

\* The supported pairs in the closed range [min, max] of the QR q.
InRange(q) ==
    {v \in SupportedPairs : /\ Leq(PairOf(q.ProtocolVersion), v)
                            /\ Leq(v, PairOf(q.ProtocolMaxVersion))}

(***************************************************************************)
(* C7: when calcVersion returns a version for a QR, that version is a pair  *)
(* of the supported table, lies in the QR's range [min, max] and is the     *)
(* highest supported pair in that range.                                    *)
(***************************************************************************)
C7_HighestSupportedInRange ==
    (pc # "idle" /\ ~calcVersion(qr).err) =>
        /\ Version = calcVersion(qr).version
        /\ PairOf(Version) \in InRange(qr)
        /\ \A v \in InRange(qr) : Leq(v, PairOf(Version))

(***************************************************************************)
(* C8: calcVersion returns an error exactly when no supported version lies  *)
(* in the QR's range, and then NewSession fails the session with            *)
(* ProtocolVersionNotSupported: nothing else happens in that session (no    *)
(* GET jwt, no session.start, no permission callback).                      *)
(***************************************************************************)
C8_NoIntersectionFails ==
    pc # "idle" =>
        /\ calcVersion(qr).err <=> InRange(qr) = {}
        /\ InRange(qr) = {} =>
              /\ pc = "done"
              /\ Len(trace) = 3
              /\ trace[3].ev = "Failure"
              /\ trace[3].arg = ErrorProtocolVersionNotSupported
              /\ ~Called(AskCalls \cup {"GET", "StatusUpdate", "callback"})

(***************************************************************************)
(* C9 as stated: a session whose action is outside disclosing, signing and  *)
(* issuing ends with Failure carrying UnknownAction, whatever the version   *)
(* range of its QR, without permission callback or POST.                    *)
(***************************************************************************)
C9_UnknownActionFails ==
    (pc # "idle" /\ qr.Type \notin {ActionDisclosing, ActionSigning, ActionIssuing}) =>
        /\ pc = "done"
        /\ Len(trace) = 3
        /\ trace[3].ev = "Failure"
        /\ trace[3].arg = ErrorUnknownAction
        /\ ~Called(AskCalls \cup {"POST", "callback"})

(***************************************************************************)
(* C9 amended: a session whose action is outside disclosing, signing and    *)
(* issuing ends in NewSession with one Failure and without permission       *)
(* callback or POST; the Failure carries UnknownAction (with the action as  *)
(* info) when calcVersion returned a version for the QR, and                *)
(* ProtocolVersionNotSupported when calcVersion returned an error.          *)
(***************************************************************************)
C9_UnknownActionFailsAfterVersion ==
    (pc # "idle" /\ qr.Type \notin {ActionDisclosing, ActionSigning, ActionIssuing}) =>
        /\ pc = "done"
        /\ Len(trace) = 3
        /\ trace[3].ev = "Failure"
        /\ trace[3].arg = IF calcVersion(qr).err THEN ErrorProtocolVersionNotSupported
                          ELSE ErrorUnknownAction
        /\ ~calcVersion(qr).err => trace[3].info = qr.Type
        /\ ~Called(AskCalls \cup {"POST", "callback"})

\* A session with action "unknown" that failed with UnknownAction.
C9_Witness ==
    /\ pc = "done"
    /\ qr.Type = ActionUnknown
    /\ Len(trace) = 3
    /\ trace[3].ev = "Failure" /\ trace[3].arg = ErrorUnknownAction

(***************************************************************************)
(* C10: the session never retries a POST: at most one POST (to proofs or to *)
(* commitments) is sent in a session, also when the POST fails in transport *)
(* or the server rejects the proofs.                                        *)
(***************************************************************************)
C10_AtMostOnePost == Count("POST") <= 1

\* A session whose POST failed in transport and that has ended.
C10_Witness ==
    /\ pc = "done"
    /\ \E i \in Idx : trace[i].ev = "PostResult" /\ trace[i].arg # "ok"


(***************************************************************************)
(* C11: a log entry is appended exactly when the session ends in Success,   *)
(* and it is appended before Handler.Success is called; a session that      *)
(* ends in Failure, Cancelled or UnsatisfiableRequest appends nothing. In   *)
(* an issuance session the credentials are constructed before the log       *)
(* entry is appended, and when constructing them fails the session ends in  *)
(* Failure without a log entry.                                             *)
(***************************************************************************)
C11_LogEntryIffSuccess ==
    /\ (log # <<>>) <=> Called({"Success"})
    /\ Called({"addLogEntry"}) <=> Called({"Success"})
    /\ Called({"Success"}) => PosOf({"addLogEntry"}) < PosOf({"Success"})
    /\ Called({"Failure", "Cancelled", "UnsatisfiableRequest"}) =>
          (log = <<>> /\ ~Called({"addLogEntry"}))
    /\ (Action = ActionIssuing /\ Called({"addLogEntry"})) =>
          \E i \in Idx :
             /\ trace[i].ev = "ConstructCredentials"
             /\ trace[i].info = "ok"
             /\ i < PosOf({"addLogEntry"})
    /\ \A i \in Idx :
          (trace[i].ev = "ConstructCredentials" /\ trace[i].info = "err") =>
             /\ \E j \in Idx : j > i /\ trace[j].ev = "Failure"
             /\ log = <<>>
             /\ ~Called({"addLogEntry", "Success"})


(***************************************************************************)
(* The Configuration (irmaconfig.go): what is on disk.                     *)
(***************************************************************************)
\* Timestamps are 1..MaxStamp seconds.
MaxStamp == 2

\* The scheme folders that may exist under conf.Path and conf.assets, and the
\* order in which filepath.Glob lists them (sorted).
Schemes == {"s1", "s2"}
SchemeOrder == <<"s1", "s2">>

\* The files of one scheme folder that its index may list, relative to the
\* folder: the scheme's description, the description of its issuer I, and the
\* descriptions of the credential types C and D of that issuer (in Glob order).
SchemeDescription == "description.xml"
IssuerDescription == "I/description.xml"
CredNames == <<"C", "D">>
CredentialDescriptions == <<"I/Issues/C/description.xml", "I/Issues/D/description.xml">>
\* A file of the index that loading never parses.
IssuerLogo == "I/logo.png"
Paths == {SchemeDescription, IssuerDescription, IssuerLogo,
          CredentialDescriptions[1], CredentialDescriptions[2]}

\* The bytes of a description file: "a" is a well-formed description of a
\* supported version, "old" is well-formed with an XMLVersion below the
\* minimum (or without attributes), "x" is not XML, "b" is well-formed as
\* "a" is, with other text. "none": no such file.
Contents == {"a", "b", "old", "x"}

SchemeManagerStatusValid == "Valid"
SchemeManagerStatusUnprocessed == "Unprocessed"
SchemeManagerStatusInvalidIndex == "InvalidIndex"
SchemeManagerStatusInvalidSignature == "InvalidSignature"
SchemeManagerStatusParsingError == "ParsingError"
SchemeManagerStatusContentParsingError == "ContentParsingError"

\* sha256.Sum256: distinct contents have distinct digests.
sha256(bts) == <<"sha256", bts>>

\* Hash fields of an index line that are not the 64 hexadecimal characters of
\* a SHA-256 digest: four hexadecimal characters (hex.DecodeString gives two
\* bytes), and three (hex.DecodeString fails on an odd length).
ShortHash == <<"hex", "abcd">>
OddHash == <<"hex", "abc">>

\* A nil SchemeManagerIndex.
NilIndex == [p \in {} |-> sha256("a")]

\* One scheme folder. index: whether the file index is there and parses
\* ("ok", "malformed", "missing"); indexed: the digest it lists per path;
\* sig: index.sig ("ok": verifies over the bytes of index under pk.pem,
\* "other": one that verifies under the key "other", "wrong": a well-formed
\* signature that verifies under neither, "malformed", "missing"); pk: pk.pem
\* ("ok": the key of the scheme, "other": another key, "malformed",
\* "missing"); files: the bytes of each file; timestamp: <<t>>, or <<>> when
\* the file timestamp is missing.
NoTree ==
    [exists |-> FALSE, index |-> "missing", indexed |-> NilIndex, sig |-> "missing",
     pk |-> "missing", files |-> [p \in Paths |-> "none"], timestamp |-> <<>>]

\* A folder with nothing in it.
EmptyTree == [NoTree EXCEPT !.exists = TRUE]

\* A scheme as its author signed it, with timestamp t.
GoodTree(t) ==
    [exists |-> TRUE, index |-> "ok", indexed |-> [p \in Paths |-> sha256("a")],
     sig |-> "ok", pk |-> "ok", files |-> [p \in Paths |-> "a"], timestamp |-> <<t>>]

\* The folders a scheme's remote serves: the newest version.
RemoteTree == GoodTree(MaxStamp)

\* The scheme folders the runs start from: the signed scheme, and the signed
\* scheme with one thing wrong.
FaultyTrees ==
    LET g == GoodTree(1) IN
    { [g EXCEPT !.index = "missing"],
      [g EXCEPT !.index = "malformed"],
      [g EXCEPT !.sig = "missing"],
      [g EXCEPT !.sig = "malformed"],
      [g EXCEPT !.sig = "wrong"],
      [g EXCEPT !.pk = "missing"],
      [g EXCEPT !.pk = "malformed"],
      [g EXCEPT !.timestamp = <<>>],
      [g EXCEPT !.files[SchemeDescription] = "none"],
      [g EXCEPT !.files[SchemeDescription] = "x"],
      [g EXCEPT !.files[SchemeDescription] = "old", !.indexed[SchemeDescription] = sha256("old")],
      [g EXCEPT !.files[IssuerDescription] = "x"],
      [g EXCEPT !.files[IssuerDescription] = "none"],
      [g EXCEPT !.files[IssuerLogo] = "x"],
      [g EXCEPT !.files[IssuerLogo] = "none"],
      [g EXCEPT !.files[CredentialDescriptions[1]] = "x"],
      [g EXCEPT !.files[CredentialDescriptions[2]] = "none"],
      [g EXCEPT !.files[CredentialDescriptions[2]] = "x", !.indexed[CredentialDescriptions[2]] = sha256("x")],
      [g EXCEPT !.files[CredentialDescriptions[2]] = "old", !.indexed[CredentialDescriptions[2]] = sha256("old")],
      [g EXCEPT !.indexed = [p \in Paths \ {CredentialDescriptions[2]} |-> sha256("a")]],
      [g EXCEPT !.indexed = [p \in Paths \ {IssuerLogo} |-> sha256("a")]],
      [g EXCEPT !.indexed[IssuerLogo] = OddHash],
      [g EXCEPT !.indexed[IssuerLogo] = ShortHash],
      [g EXCEPT !.indexed[IssuerLogo] = ShortHash, !.files[IssuerLogo] = "none"] }

Trees == {NoTree} \cup {GoodTree(t) : t \in 1..MaxStamp} \cup FaultyTrees

\* The second scheme starts from fewer folders.
FewTrees == {NoTree, GoodTree(1), [GoodTree(1) EXCEPT !.sig = "wrong"]}

\* The folders the first scheme starts from when there are assets.
StoredTrees ==
    {NoTree} \cup {GoodTree(t) : t \in 1..MaxStamp}
       \cup {[GoodTree(1) EXCEPT !.timestamp = <<>>], [GoodTree(1) EXCEPT !.sig = "wrong"]}

\* The scheme folders bundled as assets.
AssetTrees ==
    {NoTree} \cup {GoodTree(t) : t \in 1..MaxStamp}
       \cup {[GoodTree(1) EXCEPT !.timestamp = <<>>], [GoodTree(MaxStamp) EXCEPT !.sig = "wrong"]}

FewAssetTrees == {NoTree, GoodTree(1)}

\* Map updates.
Put(f, k, v) == [x \in DOMAIN f \cup {k} |-> IF x = k THEN v ELSE f[x]]
Del(f, k) == [x \in DOMAIN f \ {k} |-> f[x]]

(***************************************************************************)
(* Reading and verifying one scheme folder.                                *)
(***************************************************************************)
\* NewSchemeManager(name): a manager that was not processed yet.
NewSchemeManager(name) ==
    [ID |-> name, Status |-> SchemeManagerStatusUnprocessed, Valid |-> FALSE,
     index |-> NilIndex, Timestamp |-> 0, URL |-> ""]

\* readTimestamp(path): whether the file exists, and the time it holds.
readTimestamp(tree) ==
    IF tree.timestamp = <<>>
    THEN [exists |-> FALSE, ts |-> 0]
    ELSE [exists |-> TRUE, ts |-> tree.timestamp[1]]

\* A VerifySignature that only looks whether the three files exist.
VerifySignatureSkipped(tree) ==
    IF ~tree.exists \/ tree.index = "missing" \/ tree.sig = "missing" \/ tree.pk = "missing"
    THEN "Missing scheme manager index file, signature, or public key"
    ELSE ""

\* VerifySignature(id): "" when the signature on index verifies, the error
\* otherwise. A malformed signature panics (ints[0]) and is recovered.
VerifySignature(tree) ==
    IF ~tree.exists \/ tree.index = "missing" \/ tree.sig = "missing" \/ tree.pk = "missing"
    THEN "Missing scheme manager index file, signature, or public key"
    ELSE IF tree.pk = "malformed" THEN "Invalid scheme manager public key"
    ELSE IF tree.sig = "malformed" THEN "Scheme manager index signature failed to verify"
    ELSE IF tree.sig \notin {"ok", "other"} \/ tree.sig # tree.pk
    THEN "Scheme manager signature was invalid"
    ELSE ""

\* SchemeManagerIndex.FromString(s), with s the bytes of the index of tree:
\* every line is split in two parts and its first part decoded as
\* hexadecimal, of whatever length.
FromString(tree) ==
    IF tree.index = "malformed"
    THEN [index |-> NilIndex, err |-> "Scheme manager index line has incorrect amount of parts"]
    ELSE IF \E p \in DOMAIN tree.indexed : tree.indexed[p] = OddHash
    THEN [index |-> NilIndex, err |-> "encoding/hex: odd length hex string"]
    ELSE [index |-> tree.indexed, err |-> ""]

\* checkUnsignedFiles(name, index): the files it warns about ("Ignored
\* file"); it returns no error.
checkUnsignedFiles(index, tree) ==
    {p \in Paths : tree.files[p] # "none" /\ p \notin DOMAIN index}

\* parseIndex(name, manager)
parseIndex(tree) ==
    IF tree.index = "missing" THEN [index |-> NilIndex, err |-> "Missing scheme manager index file"]
    ELSE FromString(tree)

\* ReadAuthenticatedFile that returns the bytes whatever their hash.
ReadAuthenticatedFileUnchecked(index, tree, path) ==
    IF path \notin DOMAIN index
    THEN [bts |-> "none", found |-> FALSE, err |-> ""]
    ELSE IF tree.files[path] = "none"
    THEN [bts |-> "none", found |-> TRUE, err |-> "no such file"]
    ELSE [bts |-> tree.files[path], found |-> TRUE, err |-> ""]

\* ReadAuthenticatedFile(manager, path): the bytes ("none": nil), found, err.
ReadAuthenticatedFile(index, tree, path) ==
    IF path \notin DOMAIN index
    THEN [bts |-> "none", found |-> FALSE, err |-> ""]
    ELSE IF tree.files[path] = "none"
    THEN [bts |-> "none", found |-> TRUE, err |-> "no such file"]
    ELSE IF sha256(tree.files[path]) # index[path]
    THEN [bts |-> "none", found |-> TRUE, err |-> "Hash does not match scheme manager index"]
    ELSE [bts |-> tree.files[path], found |-> TRUE, err |-> ""]

\* VerifySchemeManager that verifies the signature on the index only.
VerifySchemeManagerSignatureOnly(index, tree) == VerifySignature(tree)

\* VerifySchemeManager(manager): files of the index that are not on disk are
\* skipped.
VerifySchemeManager(index, tree) ==
    IF VerifySignature(tree) # "" THEN VerifySignature(tree)
    ELSE IF \E file \in DOMAIN index :
               /\ tree.files[file] # "none"
               /\ ReadAuthenticatedFile(index, tree, file).err # ""
    THEN "Hash does not match scheme manager index"
    ELSE ""

\* pathToDescription that passes over a file the index does not list.
pathToDescriptionSkippingUnsigned(index, tree, path) ==
    IF tree.files[path] = "none"
    THEN [exists |-> FALSE, err |-> "", bts |-> "none"]
    ELSE LET r == ReadAuthenticatedFile(index, tree, path) IN
         IF ~r.found THEN [exists |-> FALSE, err |-> "", bts |-> "none"]
         ELSE IF r.err # "" THEN [exists |-> TRUE, err |-> r.err, bts |-> "none"]
         ELSE IF r.bts = "x" THEN [exists |-> TRUE, err |-> "XML syntax error", bts |-> "none"]
         ELSE [exists |-> TRUE, err |-> "", bts |-> r.bts]

\* pathToDescription(manager, path, description): exists, err, and the bytes
\* that were unmarshalled.
pathToDescription(index, tree, path) ==
    IF tree.files[path] = "none"
    THEN [exists |-> FALSE, err |-> "", bts |-> "none"]
    ELSE LET r == ReadAuthenticatedFile(index, tree, path) IN
         IF ~r.found THEN [exists |-> FALSE, err |-> "Folder must be called otherwise", bts |-> "none"]
         ELSE IF r.err # "" THEN [exists |-> TRUE, err |-> r.err, bts |-> "none"]
         ELSE IF r.bts = "x" THEN [exists |-> TRUE, err |-> "XML syntax error", bts |-> "none"]
         ELSE [exists |-> TRUE, err |-> "", bts |-> r.bts]

(***************************************************************************)
(* The Configuration: its maps, and loading a scheme folder into them.     *)
(***************************************************************************)
NoManagers == [s \in {} |-> NewSchemeManager("")]
NoDisabled == [s \in {} |-> SchemeManagerStatusUnprocessed]

\* The Configuration and its storage as one value.
Conf ==
    [storage |-> storage, initialized |-> initialized,
     SchemeManagers |-> SchemeManagers,
     DisabledSchemeManagers |-> DisabledSchemeManagers,
     Issuers |-> Issuers, CredentialTypes |-> CredentialTypes,
     AttributeTypes |-> AttributeTypes, publicKeys |-> publicKeys,
     reverseHashes |-> reverseHashes, kssPublicKeys |-> kssPublicKeys]

SetConf(c) ==
    /\ storage' = c.storage
    /\ initialized' = c.initialized
    /\ SchemeManagers' = c.SchemeManagers
    /\ DisabledSchemeManagers' = c.DisabledSchemeManagers
    /\ Issuers' = c.Issuers
    /\ CredentialTypes' = c.CredentialTypes
    /\ AttributeTypes' = c.AttributeTypes
    /\ publicKeys' = c.publicKeys
    /\ reverseHashes' = c.reverseHashes
    /\ kssPublicKeys' = c.kssPublicKeys

\* F(e), with the value of e computed once (a local variable of the code).
With(e, F(_)) == CHOOSE y \in {F(x) : x \in {e}} : TRUE

\* CredentialTypeIdentifier.String()
String(credid) == credid[1] \o "." \o credid[2] \o "." \o credid[3]

\* hash[:16] of a digest, and base64.StdEncoding.EncodeToString: distinct
\* digests are taken to have distinct prefixes.
First16(hash) == <<"first16", hash>>
base64(bts) == <<"base64", bts>>

\* An empty conf.publicKeys or conf.kssPublicKeys, and an issuer's or
\* scheme's map without keys.
NoPublicKeys == [i \in {} |-> <<>>]
NoKeyObjects == [n \in {} |-> <<>>]

\* An empty conf.reverseHashes.
NoReverseHashes == [h \in {} |-> <<>>]

\* addReverseHash that registers nothing.
addReverseHashNothing(rh, credid) == rh

\* addReverseHash(credid), with rh conf.reverseHashes.
addReverseHash(rh, credid) == Put(rh, base64(First16(sha256(String(credid)))), credid)

\* A nil *CredentialType.
NilCredentialType == <<>>

\* hashToCredentialType(hash): the credential type, nil when there is none.
hashToCredentialType(c, hash) ==
    IF base64(hash) \in DOMAIN c.reverseHashes
    THEN IF c.reverseHashes[base64(hash)] \in c.CredentialTypes
         THEN c.reverseHashes[base64(hash)]
         ELSE NilCredentialType
    ELSE NilCredentialType

\* conf.clear()
clear(c) ==
    [c EXCEPT !.SchemeManagers = NoManagers, !.DisabledSchemeManagers = NoDisabled,
              !.Issuers = {}, !.CredentialTypes = {}, !.AttributeTypes = {},
              !.publicKeys = NoPublicKeys, !.kssPublicKeys = NoPublicKeys,
              !.reverseHashes = NoReverseHashes]

\* The scheme an issuer, credential type or attribute type identifier is under.
Root(identifier) == identifier[1]

\* parseCredentialsFolder(manager, issuer, path), from its k-th subfolder on.
\* st: the credential and attribute types registered so far, and err.
RECURSIVE parseCredentialsFolder(_, _, _, _, _)
parseCredentialsFolder(id, index, tree, k, st) ==
    IF k > Len(CredentialDescriptions) \/ st.err # "" THEN st
    ELSE LET d == pathToDescription(index, tree, CredentialDescriptions[k]) IN
         IF d.err # "" THEN [st EXCEPT !.err = d.err]
         ELSE IF ~d.exists THEN parseCredentialsFolder(id, index, tree, k + 1, st)
         ELSE IF d.bts = "old"
         THEN [st EXCEPT !.err = "Unsupported credential type description"]
         ELSE parseCredentialsFolder(id, index, tree, k + 1,
                 [st EXCEPT !.CredentialTypes = @ \cup {<<id, "I", CredNames[k]>>},
                            !.reverseHashes = addReverseHash(@, <<id, "I", CredNames[k]>>),
                            !.AttributeTypes = @ \cup {<<id, "I", CredNames[k], "attr">>}])

\* parseIssuerFolders(manager, path)
parseIssuerFolders(id, index, tree, c) ==
    LET d == pathToDescription(index, tree, IssuerDescription)
        c1 == [c EXCEPT !.Issuers = @ \cup {<<id, "I">>}]
    IN IF d.err # "" THEN [conf |-> c, err |-> d.err]
       ELSE IF ~d.exists THEN [conf |-> c, err |-> ""]
       ELSE IF d.bts = "old" THEN [conf |-> c, err |-> "Unsupported issuer description"]
       ELSE With(parseCredentialsFolder(id, index, tree, 1,
                    [CredentialTypes |-> c.CredentialTypes,
                     reverseHashes |-> c.reverseHashes,
                     AttributeTypes |-> c.AttributeTypes, err |-> ""]),
                 LAMBDA r : [conf |-> [c1 EXCEPT !.CredentialTypes = r.CredentialTypes,
                                                 !.reverseHashes = r.reverseHashes,
                                                 !.AttributeTypes = r.AttributeTypes],
                             err |-> r.err])

\* ParseSchemeManagerFolder(dir, manager): the Configuration afterwards, err
\* ("" for nil), and the Status the SchemeManagerError carries.
ParseSchemeManagerFolder(c, id, manager) ==
    LET tree == c.storage[id]
        Return(conf, m, e) ==
            [conf |-> [conf EXCEPT !.SchemeManagers = Put(@, id, m)],
             err |-> e, status |-> m.Status]
        ix == parseIndex(tree)
        m1 == [manager EXCEPT !.index = ix.index]
        desc == pathToDescription(ix.index, tree, SchemeDescription)
        m2 == [m1 EXCEPT !.URL = "url"]
        ts == readTimestamp(tree)
        m3 == [m2 EXCEPT !.Timestamp = ts.ts]
    IN IF VerifySignature(tree) # ""
       THEN Return(c, manager, VerifySignature(tree))
       ELSE IF ix.err # ""
       THEN Return(c, [m1 EXCEPT !.Status = SchemeManagerStatusInvalidIndex], ix.err)
       ELSE IF desc.err # ""
       THEN Return(c, [m1 EXCEPT !.Status = SchemeManagerStatusParsingError], desc.err)
       ELSE IF ~desc.exists
       THEN Return(c, [m1 EXCEPT !.Status = SchemeManagerStatusParsingError],
                   "Scheme manager description not found")
       ELSE IF desc.bts = "old"
       THEN Return(c, [m2 EXCEPT !.Status = SchemeManagerStatusParsingError],
                   "Unsupported scheme manager description")
       ELSE IF VerifySchemeManager(ix.index, tree) # ""
       THEN Return(c, [m2 EXCEPT !.Status = SchemeManagerStatusInvalidSignature],
                   VerifySchemeManager(ix.index, tree))
       ELSE IF ~ts.exists
       THEN Return(c, m2, "Could not read scheme manager timestamp")
       ELSE With(parseIssuerFolders(id, ix.index, tree, c),
                 LAMBDA iss :
                    IF iss.err # ""
                    THEN Return(iss.conf,
                                [m3 EXCEPT !.Status = SchemeManagerStatusContentParsingError],
                                iss.err)
                    ELSE Return(iss.conf, [m3 EXCEPT !.Status = SchemeManagerStatusValid,
                                                     !.Valid = TRUE], ""))

\* fs.CopyDirectory(src, dest) into a dest that does not exist.
CopyDirectory(src) == [src EXCEPT !.exists = TRUE]

\* isUpToDate that also counts a stored scheme older than the assets as up
\* to date.
isUpToDateWhenStored(st, id) ==
    IF ~assets \/ readOnly THEN [uptodate |-> TRUE, err |-> ""]
    ELSE LET new == readTimestamp(assetTrees[id])
             old == readTimestamp(st[id])
         IN IF ~new.exists
            THEN [uptodate |-> TRUE, err |-> "Could not read asset timestamp of scheme"]
            ELSE [uptodate |-> old.exists, err |-> ""]

\* isUpToDate(scheme), with st the storage.
isUpToDate(st, id) ==
    IF ~assets \/ readOnly THEN [uptodate |-> TRUE, err |-> ""]
    ELSE LET new == readTimestamp(assetTrees[id])
             old == readTimestamp(st[id])
         IN IF ~new.exists
            THEN [uptodate |-> TRUE, err |-> "Could not read asset timestamp of scheme"]
            ELSE [uptodate |-> old.exists /\ ~(new.ts > old.ts), err |-> ""]

\* CopyManagerFromAssets(scheme), with st the storage: whether it copied, err,
\* and the storage afterwards.
CopyManagerFromAssets(st, id) ==
    IF ~assets \/ readOnly
    THEN [copied |-> FALSE, err |-> "", storage |-> st]
    ELSE [copied |-> TRUE, err |-> "",
          storage |-> [st EXCEPT ![id] = CopyDirectory(assetTrees[id])]]

\* The first loop of ParseFolder, from the k-th asset folder on.
\* st: the storage so far, and err.
RECURSIVE copyAssets(_, _)
copyAssets(st, k) ==
    IF k > Len(SchemeOrder) \/ st.err # "" THEN st
    ELSE LET id == SchemeOrder[k]
             u == isUpToDate(st.storage, id)
         IN IF ~assetTrees[id].exists THEN copyAssets(st, k + 1)
            ELSE IF u.err # "" THEN [st EXCEPT !.err = u.err]
            ELSE IF ~u.uptodate
            THEN copyAssets([st EXCEPT !.storage = CopyManagerFromAssets(st.storage, id).storage],
                            k + 1)
            ELSE copyAssets(st, k + 1)

\* The second loop of ParseFolder, halting at the first scheme that fails.
RECURSIVE parseStoredHalting(_, _)
parseStoredHalting(st, k) ==
    IF k > Len(SchemeOrder) THEN st
    ELSE LET id == SchemeOrder[k] IN
         IF ~st.conf.storage[id].exists THEN parseStoredHalting(st, k + 1)
         ELSE With(ParseSchemeManagerFolder(st.conf, id, NewSchemeManager(id)),
                   LAMBDA p :
                      IF p.err = "" THEN parseStoredHalting([st EXCEPT !.conf = p.conf], k + 1)
                      ELSE [conf |-> [p.conf EXCEPT !.DisabledSchemeManagers =
                                                       Put(@, id, p.status)],
                            err |-> p.err, mgrerr |-> id, status |-> p.status])

\* The second loop of ParseFolder, from the k-th stored folder on.
\* st: the Configuration so far, err, and for a SchemeManagerError its
\* Manager (mgrerr, "" when nil) and Status.
RECURSIVE parseStored(_, _)
parseStored(st, k) ==
    IF k > Len(SchemeOrder) THEN st
    ELSE LET id == SchemeOrder[k] IN
         IF ~st.conf.storage[id].exists THEN parseStored(st, k + 1)
         ELSE With(ParseSchemeManagerFolder(st.conf, id, NewSchemeManager(id)),
                   LAMBDA p :
                      IF p.err = "" THEN parseStored([st EXCEPT !.conf = p.conf], k + 1)
                      ELSE parseStored(
                              [conf |-> [p.conf EXCEPT !.DisabledSchemeManagers =
                                                          Put(@, id, p.status)],
                               err |-> p.err, mgrerr |-> id, status |-> p.status],
                              k + 1))

\* ParseFolder(): the Configuration afterwards, err, whether err is a
\* SchemeManagerError and then its Manager and Status.
ParseFolder(c) ==
    With(clear(c), LAMBDA c0 :
    With(IF assets THEN copyAssets([storage |-> c0.storage, err |-> ""], 1)
                   ELSE [storage |-> c0.storage, err |-> ""],
         LAMBDA a :
            IF a.err # ""
            THEN [conf |-> [c0 EXCEPT !.storage = a.storage], err |-> a.err,
                  mgrerr |-> "", status |-> ""]
            ELSE With(parseStored([conf |-> [c0 EXCEPT !.storage = a.storage],
                                   err |-> "", mgrerr |-> "", status |-> ""], 1),
                      LAMBDA p : [p EXCEPT !.conf.initialized = TRUE])))

(***************************************************************************)
(* The Configuration: removing and restoring schemes.                      *)
(***************************************************************************)
\* DeleteSchemeManager(id)
DeleteSchemeManager(c, id) ==
    [c EXCEPT !.SchemeManagers = Del(@, id),
              !.DisabledSchemeManagers = Del(@, id),
              !.Issuers = {x \in @ : Root(x) # id},
              !.publicKeys = [x \in {y \in DOMAIN @ : Root(y) # id} |-> @[x]],
              !.CredentialTypes = {x \in @ : Root(x) # id},
              !.storage[id] = IF ~readOnly THEN NoTree ELSE @]

\* RemoveSchemeManager(id, fromStorage)
RemoveSchemeManager(c, id, fromStorage) ==
    [c EXCEPT !.CredentialTypes = {x \in @ : Root(x) # id},
              !.Issuers = {x \in @ : Root(x) # id},
              !.publicKeys = [x \in {y \in DOMAIN @ : Root(y) # id} |-> @[x]],
              !.SchemeManagers = Del(@, id),
              !.storage[id] = IF fromStorage \/ ~readOnly THEN NoTree ELSE @]

\* Prune(), from the k-th scheme manager on.
RECURSIVE Prune(_, _)
Prune(c, k) ==
    IF k > Len(SchemeOrder) THEN c
    ELSE LET id == SchemeOrder[k] IN
         IF id \in DOMAIN c.SchemeManagers /\ ~c.SchemeManagers[id].Valid
         THEN Prune(RemoveSchemeManager(c, id, FALSE), k + 1)
         ELSE Prune(c, k + 1)

(***************************************************************************)
(* The Configuration: downloading from the remote of a scheme.             *)
(***************************************************************************)
\* The files of a scheme folder that UpdateSchemeManager may download: the
\* files of the index, among them timestamp (sigExceptions does not exempt
\* it).
TimestampFile == "timestamp"
UpdateFiles == Paths \cup {TimestampFile}

\* Orders in which a range over the new index may visit its files.
SortedFiles ==
    <<IssuerDescription, CredentialDescriptions[1], CredentialDescriptions[2],
      IssuerLogo, SchemeDescription, TimestampFile>>

FileOrders ==
    {SortedFiles, [i \in DOMAIN SortedFiles |-> SortedFiles[Len(SortedFiles) + 1 - i]]}

\* What may go wrong with the network during one call: nothing, or the GET of
\* one file fails.
Failures == {"none", "pk.pem", "index", "index.sig", TimestampFile, SchemeDescription,
             IssuerLogo}

\* Whether the remote folder rem serves the file name.
Serves(rem, name) ==
    /\ rem.exists
    /\ CASE name = "pk.pem" -> rem.pk # "missing"
         [] name = "index" -> rem.index # "missing"
         [] name = "index.sig" -> rem.sig # "missing"
         [] name = TimestampFile -> rem.timestamp # <<>>
         [] OTHER -> rem.files[name] # "none"

\* The folder tree after the bytes that rem serves for the file name were
\* saved in it (fs.SaveFile).
Saved(tree, rem, name) ==
    CASE name = "pk.pem" -> [tree EXCEPT !.exists = TRUE, !.pk = rem.pk]
      [] name = "index" -> [tree EXCEPT !.exists = TRUE, !.index = rem.index,
                                        !.indexed = rem.indexed]
      [] name = "index.sig" -> [tree EXCEPT !.exists = TRUE, !.sig = rem.sig]
      [] name = TimestampFile -> [tree EXCEPT !.exists = TRUE, !.timestamp = rem.timestamp]
      [] OTHER -> [tree EXCEPT !.exists = TRUE, !.files[name] = rem.files[name]]

\* HTTPTransport.GetBytes(name): err, "" when the bytes arrived.
GetBytes(url, rem, name, down) ==
    IF url = "" \/ down = name \/ ~Serves(rem, name) THEN "transport" ELSE ""

\* HTTPTransport.GetFile(name, dest): the folder afterwards, err, and the
\* files written.
GetFile(url, rem, tree, name, down) ==
    IF GetBytes(url, rem, name, down) # ""
    THEN [tree |-> tree, err |-> GetBytes(url, rem, name, down), written |-> {}]
    ELSE [tree |-> Saved(tree, rem, name), err |-> "", written |-> {name}]

\* The SHA-256 of the bytes rem serves for a file of the index. The index of a
\* remote lists its timestamp with the hash of the timestamp it serves.
ServedHash(rem, name) ==
    IF name = TimestampFile THEN sha256(rem.timestamp) ELSE sha256(rem.files[name])

\* The hash an index has for a file: of timestamp, the hash of the timestamp
\* of the folder the index is in.
IndexHash(index, tree, name) ==
    IF name = TimestampFile THEN sha256(tree.timestamp) ELSE index[name]

\* GetSignedFile that saves the bytes whatever their hash.
GetSignedFileUnchecked(url, rem, tree, name, hash, down) == GetFile(url, rem, tree, name, down)

\* HTTPTransport.GetSignedFile(name, dest, hash): the bytes are saved only
\* when their SHA-256 is hash.
GetSignedFile(url, rem, tree, name, hash, down) ==
    IF GetBytes(url, rem, name, down) # ""
    THEN [tree |-> tree, err |-> GetBytes(url, rem, name, down), written |-> {}]
    ELSE IF ServedHash(rem, name) # hash
    THEN [tree |-> tree, err |-> "Signature over new file is not valid", written |-> {}]
    ELSE [tree |-> Saved(tree, rem, name), err |-> "", written |-> {name}]

\* DownloadSchemeManagerSignature that does not verify what it downloaded.
DownloadSchemeManagerSignatureUnverified(c, id, url, down) ==
    LET rem == remote[id]
        tree == c.storage[id]
        i == GetFile(url, rem, tree, "index", down)
        s == GetFile(url, rem, i.tree, "index.sig", down)
        Return(t, e, w, f) ==
            [conf |-> [c EXCEPT !.storage[id] = t], err |-> e, written |-> w, fetched |-> f]
    IN IF readOnly
       THEN Return(tree, "cannot download into a read-only configuration", {}, {})
       ELSE IF i.err # "" THEN Return(i.tree, i.err, i.written, {"index"})
       ELSE Return(s.tree, s.err, i.written \cup s.written, {"index", "index.sig"})

\* DownloadSchemeManagerSignature(manager): the Configuration afterwards, err,
\* the files written and the files fetched.
DownloadSchemeManagerSignature(c, id, url, down) ==
    LET rem == remote[id]
        tree == c.storage[id]
        i == GetFile(url, rem, tree, "index", down)
        s == GetFile(url, rem, i.tree, "index.sig", down)
        Return(t, e, w, f) ==
            [conf |-> [c EXCEPT !.storage[id] = t], err |-> e, written |-> w, fetched |-> f]
    IN IF readOnly
       THEN Return(tree, "cannot download into a read-only configuration", {}, {})
       ELSE IF i.err # "" THEN Return(i.tree, i.err, i.written, {"index"})
       ELSE IF s.err # ""
       THEN Return(s.tree, s.err, i.written \cup s.written, {"index", "index.sig"})
       ELSE Return(s.tree, VerifySignature(s.tree), i.written \cup s.written,
                   {"index", "index.sig"})

\* The loop of UpdateSchemeManager over the new index, visited in the order
\* given, from its k-th file on. st: the folder so far, err, the files
\* written and the files fetched.
RECURSIVE downloadFiles(_, _, _, _, _, _, _, _)
downloadFiles(st, url, rem, oldIndex, newIndex, order, k, down) ==
    IF k > Len(order) \/ st.err # "" THEN st
    ELSE LET filename == order[k]
             listed == filename \in DOMAIN newIndex
                          \/ (filename = TimestampFile /\ rem.timestamp # <<>>)
             known == filename \in DOMAIN oldIndex
                         \/ (filename = TimestampFile /\ DOMAIN oldIndex # {})
             have == IF filename = TimestampFile THEN st.tree.timestamp # <<>>
                     ELSE st.tree.files[filename] # "none"
             newHash == IndexHash(newIndex, rem, filename)
         IN IF ~listed THEN downloadFiles(st, url, rem, oldIndex, newIndex, order, k + 1, down)
            ELSE IF known /\ have /\ IndexHash(oldIndex, st.tree, filename) = newHash
            THEN downloadFiles(st, url, rem, oldIndex, newIndex, order, k + 1, down)
            ELSE With(GetSignedFile(url, rem, st.tree, filename, newHash, down),
                      LAMBDA g :
                         downloadFiles([tree |-> g.tree, err |-> g.err,
                                        written |-> st.written \cup g.written,
                                        fetched |-> st.fetched \cup {filename}],
                                       url, rem, oldIndex, newIndex, order, k + 1, down))

\* An update that makes the new index the index of the manager also when the
\* loop over its files returned an error.
publishIndexAlways(index, newIndex, err) == newIndex

\* manager.index = newIndex at the end of UpdateSchemeManager, which the loop
\* over the files of newIndex reaches only when it returned no error.
publishIndex(index, newIndex, err) == IF err = "" THEN newIndex ELSE index

\* UpdateSchemeManager(id, downloaded): the Configuration afterwards, err, the
\* files written and the files fetched.
UpdateSchemeManager(c, id, order, down) ==
    LET Return(conf, e, w, f) == [conf |-> conf, err |-> e, written |-> w, fetched |-> f]
    IN IF readOnly THEN Return(c, "cannot update a read-only configuration", {}, {})
       ELSE IF id \notin DOMAIN c.SchemeManagers
       THEN Return(c, "Cannot update unknown scheme manager", {}, {})
       ELSE LET manager == c.SchemeManagers[id]
                rem == remote[id]
            IN IF GetBytes(manager.URL, rem, TimestampFile, down) # ""
               THEN Return(c, GetBytes(manager.URL, rem, TimestampFile, down), {},
                           {TimestampFile})
               ELSE IF ~(manager.Timestamp < rem.timestamp[1])
               THEN Return(c, "", {}, {TimestampFile})
               ELSE With(DownloadSchemeManagerSignature(c, id, manager.URL, down), LAMBDA d :
                    IF d.err # ""
                    THEN Return(d.conf, d.err, d.written, {TimestampFile} \cup d.fetched)
                    ELSE With(parseIndex(d.conf.storage[id]), LAMBDA ix :
                         IF ix.err # ""
                         THEN Return(d.conf, ix.err, d.written, {TimestampFile} \cup d.fetched)
                         ELSE With(downloadFiles([tree |-> d.conf.storage[id], err |-> "",
                                                  written |-> d.written,
                                                  fetched |-> {TimestampFile} \cup d.fetched],
                                                 manager.URL, rem, manager.index, ix.index,
                                                 order, 1, down),
                                   LAMBDA l :
                                      Return([d.conf EXCEPT
                                                !.storage[id] = l.tree,
                                                !.SchemeManagers[id].index =
                                                   publishIndex(@, ix.index, l.err)],
                                             l.err, l.written, l.fetched))))

\* The public key InstallSchemeManager is given: nil, the key of the scheme,
\* or another key.
PinnedKeys == {"nil", "ok", "other"}

\* DownloadSchemeManager(url): the manager the description of the remote is
\* unmarshalled into.
DownloadSchemeManager(id) == [NewSchemeManager(id) EXCEPT !.URL = "url"]

\* InstallSchemeManager(manager, publickey): the Configuration afterwards,
\* err, the files written and the files fetched.
InstallSchemeManager(c, id, manager, publickey, order, down) ==
    LET Return(conf, e, w, f) == [conf |-> conf, err |-> e, written |-> w, fetched |-> f]
        rem == remote[id]
        dir == [c.storage[id] EXCEPT !.exists = TRUE]
        c0 == [c EXCEPT !.storage[id] = dir]
        desc == GetFile(manager.URL, rem, dir, SchemeDescription, down)
        pk == IF publickey # "nil"
              THEN [tree |-> [desc.tree EXCEPT !.pk = publickey], err |-> "",
                    written |-> {"pk.pem"}]
              ELSE GetFile(manager.URL, rem, desc.tree, "pk.pem", down)
        fetchedpk == IF publickey # "nil" THEN {SchemeDescription}
                     ELSE {SchemeDescription, "pk.pem"}
        c1 == [c EXCEPT !.storage[id] = pk.tree]
    IN IF readOnly THEN Return(c, "cannot install scheme into a read-only configuration", {}, {})
       ELSE IF desc.err # "" THEN Return(c0, desc.err, {}, {SchemeDescription})
       ELSE IF pk.err # ""
       THEN Return([c EXCEPT !.storage[id] = desc.tree], pk.err, desc.written, fetchedpk)
       ELSE With(DownloadSchemeManagerSignature(c1, id, manager.URL, down), LAMBDA d :
            IF d.err # ""
            THEN Return(d.conf, d.err, desc.written \cup pk.written \cup d.written,
                        fetchedpk \cup d.fetched)
            ELSE With(UpdateSchemeManager(
                         [d.conf EXCEPT !.SchemeManagers = Put(@, id, manager)],
                         id, order, down),
                      LAMBDA u :
                         LET w == desc.written \cup pk.written \cup d.written \cup u.written
                             f == fetchedpk \cup d.fetched \cup u.fetched
                         IN IF u.err # "" THEN Return(u.conf, u.err, w, f)
                            ELSE With(ParseSchemeManagerFolder(u.conf, id,
                                                               u.conf.SchemeManagers[id]),
                                      LAMBDA p : Return(p.conf, p.err, w, f))))

\* What the remote of a scheme does during ReinstallSchemeManager: it does not
\* answer, it fails while InstallSchemeManager downloads, or it serves the
\* scheme.
RemoteOutcomes == {"unreachable", "installFails", "ok"}

\* ReinstallSchemeManager that deletes the scheme before it tries the remote.
ReinstallSchemeManagerDeletingFirst(c, id, outcome) ==
    LET manager == c.SchemeManagers[id]
    IN IF readOnly
       THEN [conf |-> c, err |-> "cannot install scheme into a read-only configuration"]
       ELSE IF outcome = "unreachable"
               \/ GetBytes(manager.URL, remote[id], SchemeDescription, "none") # ""
       THEN [conf |-> DeleteSchemeManager(c, id), err |-> "transport"]
       ELSE With(InstallSchemeManager(DeleteSchemeManager(c, id), id,
                                      DownloadSchemeManager(id), "nil", SortedFiles,
                                      IF outcome = "installFails" THEN SchemeDescription
                                      ELSE "none"),
                 LAMBDA r : [conf |-> r.conf, err |-> r.err])

\* ReinstallSchemeManager(manager): the Configuration afterwards and err.
ReinstallSchemeManager(c, id, outcome) ==
    LET manager == c.SchemeManagers[id]
    IN IF readOnly
       THEN [conf |-> c, err |-> "cannot install scheme into a read-only configuration"]
       ELSE IF outcome = "unreachable"
               \/ GetBytes(manager.URL, remote[id], SchemeDescription, "none") # ""
       THEN [conf |-> c, err |-> "transport"]
       ELSE With(InstallSchemeManager(DeleteSchemeManager(c, id), id,
                                      DownloadSchemeManager(id), "nil", SortedFiles,
                                      IF outcome = "installFails" THEN SchemeDescription
                                      ELSE "none"),
                 LAMBDA r : [conf |-> r.conf, err |-> r.err])

\* The loop of ParseOrRestoreFolder over conf.DisabledSchemeManagers, visited
\* in the order given, from its k-th element on. st: the Configuration so far
\* and err, and attempts: what was tried for which scheme, with what result.
RECURSIVE restore(_, _, _, _)
restore(st, order, k, outcome) ==
    IF k > Len(order) THEN st
    ELSE LET id == order[k] IN
         IF id \notin DOMAIN st.conf.DisabledSchemeManagers
         THEN restore(st, order, k + 1, outcome)
         ELSE With(ReinstallSchemeManager(st.conf, id, outcome[id]),
                   LAMBDA r :
                      IF r.err = ""
                      THEN restore([conf |-> r.conf, err |-> "",
                                    attempts |-> Append(st.attempts,
                                                        <<id, "reinstall", "ok">>)],
                                   order, k + 1, outcome)
                      ELSE With(ParseSchemeManagerFolder(
                                   [r.conf EXCEPT !.storage =
                                       CopyManagerFromAssets(r.conf.storage, id).storage],
                                   id, NewSchemeManager(id)),
                                LAMBDA p :
                                   IF p.err = ""
                                   THEN restore([conf |-> [p.conf EXCEPT
                                                    !.DisabledSchemeManagers = Del(@, id)],
                                                 err |-> "",
                                                 attempts |-> st.attempts \o
                                                    <<<<id, "reinstall", "err">>,
                                                      <<id, "assets", "ok">>>>],
                                                order, k + 1, outcome)
                                   ELSE restore([conf |-> p.conf, err |-> p.err,
                                                 attempts |-> st.attempts \o
                                                    <<<<id, "reinstall", "err">>,
                                                      <<id, "assets", "err">>>>],
                                                order, k + 1, outcome)))

\* ParseOrRestoreFolder(): the Configuration afterwards and err; and the
\* schemes that ParseFolder left disabled when it returned a
\* SchemeManagerError, those of them that have a URL, and what the loop tried.
ParseOrRestoreFolder(c, order, outcome) ==
    With(ParseFolder(c), LAMBDA p :
       LET failed == IF p.mgrerr = "" THEN {} ELSE DOMAIN p.conf.DisabledSchemeManagers
           urls == {id \in failed : /\ id \in DOMAIN p.conf.SchemeManagers
                                    /\ p.conf.SchemeManagers[id].URL # ""}
           Return(r) == [conf |-> r.conf, err |-> r.err, failed |-> failed, urls |-> urls,
                         attempts |-> r.attempts]
       IN IF p.mgrerr = "" THEN Return([conf |-> p.conf, err |-> p.err, attempts |-> <<>>])
          ELSE IF ~assets \/ readOnly
          THEN Return([conf |-> p.conf, err |-> p.err, attempts |-> <<>>])
          ELSE Return(restore([conf |-> p.conf, err |-> p.err, attempts |-> <<>>],
                              order, 1, outcome)))

(***************************************************************************)
(* The Configuration: public keys of issuers and of keyshare servers.      *)
(***************************************************************************)
\* Key objects are allocated until there are MaxAllocated of them.
MaxAllocated == 4

\* The issuer that has key files, and the files of its PublicKeys folder in
\* Glob order: the k-th holds the key with counter k - 1.
KeyIssuer == <<"s1", "I">>
KeyPaths == <<"I/PublicKeys/0.xml", "I/PublicKeys/1.xml">>

\* The bytes of a key file: "k0" and "k1" are public keys whose <Counter> is
\* 0 and 1, "x" is not a public key; and the Counter of a public key.
KeyCounter == [k0 |-> 0, k1 |-> 1]

\* The numbers of the kss-<n>.pem files asked for. Of their bytes, "rsa" is
\* an RSA public key and "ec" a public key of another kind.
KssNumbers == {0, 1}

\* The key files of the scheme as its author signed them.
GoodKeyFiles ==
    [files |-> [f \in {KeyPaths[1], KeyPaths[2]} |->
                  IF f = KeyPaths[1] THEN "k0" ELSE "k1"],
     indexed |-> [f \in {KeyPaths[1], KeyPaths[2]} |->
                    IF f = KeyPaths[1] THEN sha256("k0") ELSE sha256("k1")],
     kss |-> [n \in KssNumbers |-> IF n = 0 THEN "rsa" ELSE "none"]]

\* A scheme without key files.
NoKeyFiles ==
    [files |-> [f \in {KeyPaths[1], KeyPaths[2]} |-> "none"],
     indexed |-> [f \in {} |-> sha256("k0")],
     kss |-> [n \in KssNumbers |-> "none"]]

\* The key files the runs start from: as signed, and with one thing wrong.
KeyFolders ==
    LET g == GoodKeyFiles IN
    { g, NoKeyFiles,
      [g EXCEPT !.files[KeyPaths[2]] = "none"],
      [g EXCEPT !.files[KeyPaths[2]] = "x"],
      [g EXCEPT !.files[KeyPaths[2]] = "k0", !.indexed[KeyPaths[2]] = sha256("k0")],
      [g EXCEPT !.files[KeyPaths[2]] = "x", !.indexed[KeyPaths[2]] = sha256("x")],
      [g EXCEPT !.indexed = [f \in {KeyPaths[1]} |-> sha256("k0")]],
      [g EXCEPT !.files[KeyPaths[1]] = "x"],
      [g EXCEPT !.kss[0] = "ec"],
      [g EXCEPT !.kss[0] = "none"] }

\* A nil *gabi.PublicKey or *rsa.PublicKey.
NilKey == <<>>

\* The loop of parseKeysFolder over the files of the PublicKeys folder, from
\* the k-th on. st: the issuer's map so far, err, whether the loop returned,
\* and the count of key objects.
RECURSIVE parseKeyFiles(_, _, _)
parseKeyFiles(st, files, k) ==
    IF k > Len(KeyPaths) \/ st.returned THEN st
    ELSE IF files.files[KeyPaths[k]] = "none" THEN parseKeyFiles(st, files, k + 1)
    ELSE LET r == ReadAuthenticatedFile(files.indexed, files, KeyPaths[k]) IN
         IF r.err # "" \/ ~r.found THEN [st EXCEPT !.err = r.err, !.returned = TRUE]
         ELSE IF r.bts \notin DOMAIN KeyCounter
         THEN [st EXCEPT !.err = "not a public key", !.returned = TRUE]
         ELSE IF KeyCounter[r.bts] # k - 1
         THEN [st EXCEPT !.err = "Public key has wrong <Counter>", !.returned = TRUE]
         ELSE parseKeyFiles([st EXCEPT !.keys = Put(@, k - 1, <<r.bts, st.allocated + 1>>),
                                       !.allocated = @ + 1],
                            files, k + 1)

\* parseKeysFolder(issuerid), with n the count of key objects: the
\* Configuration afterwards, err, and the count.
parseKeysFolder(c, issuerid, n) ==
    With(parseKeyFiles([keys |-> NoKeyObjects, err |-> "", returned |-> FALSE,
                        allocated |-> n],
                       IF issuerid = KeyIssuer THEN keyFiles ELSE NoKeyFiles, 1),
         LAMBDA r : [conf |-> [c EXCEPT !.publicKeys = Put(@, issuerid, r.keys)],
                     err |-> r.err, allocated |-> r.allocated])

\* PublicKey(id, counter): the Configuration afterwards, the key (NilKey for
\* nil), err, and the count of key objects.
PublicKey(c, id, counter, n) ==
    LET haveIssuer == id \in DOMAIN c.publicKeys
        haveKey == haveIssuer /\ counter \in DOMAIN c.publicKeys[id]
        Lookup(conf) == IF counter \in DOMAIN conf.publicKeys[id]
                        THEN conf.publicKeys[id][counter] ELSE NilKey
    IN IF ~haveIssuer \/ ~haveKey
       THEN With(parseKeysFolder(c, id, n), LAMBDA r :
               IF r.err # ""
               THEN [conf |-> r.conf, pk |-> NilKey, err |-> r.err, allocated |-> r.allocated]
               ELSE [conf |-> r.conf, pk |-> Lookup(r.conf), err |-> "",
                     allocated |-> r.allocated])
       ELSE [conf |-> c, pk |-> Lookup(c), err |-> "", allocated |-> n]

\* PublicKeyIndices(issuerid): the counters in the names of the key files.
PublicKeyIndices(issuerid) ==
    IF issuerid = KeyIssuer
    THEN {k - 1 : k \in {j \in DOMAIN KeyPaths : keyFiles.files[KeyPaths[j]] # "none"}}
    ELSE {}

\* The largest of a nonempty set of counters.
Latest(indices) == CHOOSE i \in indices : \A j \in indices : j <= i

\* CheckKeys(), from the k-th issuer on. st: the Configuration so far, err,
\* and the count of key objects.
RECURSIVE CheckKeys(_, _)
CheckKeys(st, k) ==
    IF k > Len(SchemeOrder) \/ st.err # "" THEN st
    ELSE LET issuerid == <<SchemeOrder[k], "I">> IN
         IF issuerid \notin st.conf.Issuers THEN CheckKeys(st, k + 1)
         ELSE With(parseKeysFolder(st.conf, issuerid, st.allocated), LAMBDA r :
                 IF r.err # "" \/ PublicKeyIndices(issuerid) = {}
                 THEN CheckKeys(r, k + 1)
                 ELSE With(PublicKey(r.conf, issuerid, Latest(PublicKeyIndices(issuerid)),
                                     r.allocated),
                           LAMBDA l : CheckKeys([conf |-> l.conf, err |-> l.err,
                                                 allocated |-> l.allocated], k + 1)))

\* KeyshareServerPublicKey(scheme, i): the Configuration afterwards, the key,
\* err, and the count of key objects.
KeyshareServerPublicKey(c, scheme, i, n) ==
    LET entry == IF scheme \in DOMAIN c.kssPublicKeys THEN c.kssPublicKeys[scheme]
                 ELSE NoKeyObjects
        c1 == [c EXCEPT !.kssPublicKeys = Put(@, scheme, entry)]
        pkbts == IF scheme = Root(KeyIssuer) THEN keyFiles.kss[i] ELSE "none"
    IN IF i \in DOMAIN entry
       THEN [conf |-> c1, pk |-> entry[i], err |-> "", allocated |-> n]
       ELSE IF pkbts = "none"
       THEN [conf |-> c1, pk |-> NilKey, err |-> "no such file", allocated |-> n]
       ELSE IF pkbts # "rsa"
       THEN [conf |-> c1, pk |-> NilKey, err |-> "Invalid keyshare server public key",
             allocated |-> n]
       ELSE [conf |-> [c1 EXCEPT !.kssPublicKeys[scheme] = Put(entry, i, <<pkbts, n + 1>>)],
             pk |-> <<pkbts, n + 1>>, err |-> "", allocated |-> n + 1]

(***************************************************************************)
(* The calls on one Configuration.                                         *)
(***************************************************************************)
\* What a call returned: err ("" for nil), for a SchemeManagerError its
\* Status, for ReadAuthenticatedFile the bytes and found, for
\* CopyManagerFromAssets whether it copied; the storage it was made on; for
\* ParseOrRestoreFolder the schemes whose parse failed, those of them that
\* have a URL, and the attempts to restore them, in order.
Outcome(op, id, arg) ==
    [op |-> op, id |-> id, arg |-> arg, err |-> "", status |-> "", bts |-> "none",
     found |-> FALSE, copied |-> FALSE, written |-> {}, fetched |-> {}, pre |-> storage,
     failed |-> {}, urls |-> {}, attempts |-> <<>>]

\* No issuer has key files, no scheme has keyshare keys: nothing is cached.
NoKeys ==
    /\ keyFiles = NoKeyFiles
    /\ allocated = 0

\* NewConfiguration(path), NewConfigurationFromAssets(path, assets) or
\* NewConfigurationReadOnly(path), over the directories as they are.
ConfInit ==
    /\ SessionInit
    /\ \E t1 \in Trees, t2 \in FewTrees, a1 \in AssetTrees, a2 \in FewAssetTrees :
          /\ storage = [s \in Schemes |-> IF s = "s1" THEN t1 ELSE t2]
          /\ \/ /\ assets = TRUE
                /\ readOnly = FALSE
                /\ t1 \in StoredTrees
                /\ assetTrees = [s \in Schemes |-> IF s = "s1" THEN a1 ELSE a2]
             \/ /\ assets = FALSE
                /\ readOnly \in BOOLEAN
                /\ assetTrees = [s \in Schemes |-> NoTree]
    /\ initialized = FALSE
    /\ SchemeManagers = NoManagers
    /\ DisabledSchemeManagers = NoDisabled
    /\ Issuers = {}
    /\ CredentialTypes = {}
    /\ AttributeTypes = {}
    /\ publicKeys = NoPublicKeys
    /\ reverseHashes = NoReverseHashes
    /\ kssPublicKeys = NoPublicKeys
    /\ remote = [s \in Schemes |-> RemoteTree]
    /\ NoKeys
    /\ goroutines = <<>>
    /\ ret = Outcome("New", "", "")

CallParseFolder ==
    \E r \in {ParseFolder(Conf)} :
    /\ SetConf(r.conf)
    /\ ret' = [Outcome("ParseFolder", r.mgrerr, "") EXCEPT !.err = r.err, !.status = r.status]
    /\ UNCHANGED <<assetTrees, assets, readOnly, remote, keyVars, goroutines, sessionVars>>

\* The orders in which a range over conf.DisabledSchemeManagers may visit it.
Orders == {<<"s1", "s2">>, <<"s2", "s1">>}

\* No remote answers.
NoRemote == [s \in Schemes |-> "unreachable"]

\* ParseOrRestoreFolder enters its loop only with assets and when writable:
\* otherwise neither the order nor the remotes make a difference.
RestoreInputsMatter == assets /\ ~readOnly

CallParseOrRestoreFolder(order, outcome) ==
    \E r \in {ParseOrRestoreFolder(Conf, order, outcome)} :
    /\ SetConf(r.conf)
    /\ ret' = [Outcome("ParseOrRestoreFolder", "", "") EXCEPT
                  !.err = r.err, !.failed = r.failed, !.urls = r.urls,
                  !.attempts = r.attempts]
    /\ UNCHANGED <<assetTrees, assets, readOnly, remote, keyVars, goroutines, sessionVars>>

\* os.RemoveAll of a scheme folder removes the key files in it: the key files
\* when the Configuration has become c.
RemoveAll(c) ==
    IF storage[Root(KeyIssuer)].exists /\ ~c.storage[Root(KeyIssuer)].exists
    THEN NoKeyFiles ELSE keyFiles

CallPrune ==
    /\ \E c \in {Prune(Conf, 1)} : SetConf(c) /\ keyFiles' = RemoveAll(c)
    /\ ret' = Outcome("Prune", "", "")
    /\ UNCHANGED <<assetTrees, assets, readOnly, remote, allocated, goroutines, sessionVars>>

CallRemoveSchemeManager(id, fromStorage) ==
    /\ \E c \in {RemoveSchemeManager(Conf, id, fromStorage)} :
          SetConf(c) /\ keyFiles' = RemoveAll(c)
    /\ ret' = Outcome("RemoveSchemeManager", id, Ok(fromStorage))
    /\ UNCHANGED <<assetTrees, assets, readOnly, remote, allocated, goroutines, sessionVars>>

CallDeleteSchemeManager(id) ==
    /\ \E c \in {DeleteSchemeManager(Conf, id)} : SetConf(c) /\ keyFiles' = RemoveAll(c)
    /\ ret' = Outcome("DeleteSchemeManager", id, "")
    /\ UNCHANGED <<assetTrees, assets, readOnly, remote, allocated, goroutines, sessionVars>>

CallCopyManagerFromAssets(id) ==
    \E r \in {CopyManagerFromAssets(storage, id)} :
    /\ storage' = r.storage
    /\ ret' = [Outcome("CopyManagerFromAssets", id, "") EXCEPT !.err = r.err,
                                                              !.copied = r.copied]
    /\ UNCHANGED <<assetTrees, assets, readOnly, initialized, SchemeManagers,
                   DisabledSchemeManagers, Issuers, CredentialTypes, AttributeTypes,
                   publicKeys, reverseHashes, kssPublicKeys, remote, keyVars, goroutines,
                   sessionVars>>

CallReinstallSchemeManager(id, outcome) ==
    /\ id \in DOMAIN SchemeManagers
    /\ \E r \in {ReinstallSchemeManager(Conf, id, outcome)} :
       /\ SetConf(r.conf)
       /\ ret' = [Outcome("ReinstallSchemeManager", id, outcome) EXCEPT !.err = r.err]
    /\ UNCHANGED <<assetTrees, assets, readOnly, remote, keyVars, goroutines, sessionVars>>

\* The paths ReadAuthenticatedFile is called with.
ReadPaths == {IssuerLogo, CredentialDescriptions[2]}

CallReadAuthenticatedFile(id, path) ==
    /\ id \in DOMAIN SchemeManagers
    /\ LET r == ReadAuthenticatedFile(SchemeManagers[id].index, storage[id], path) IN
       ret' = [Outcome("ReadAuthenticatedFile", id, path) EXCEPT
                  !.err = r.err, !.bts = r.bts, !.found = r.found]
    /\ UNCHANGED <<storage, assetTrees, assets, readOnly, initialized, SchemeManagers,
                   DisabledSchemeManagers, Issuers, CredentialTypes, AttributeTypes,
                   publicKeys, reverseHashes, kssPublicKeys, remote, keyVars, goroutines,
                   sessionVars>>

\* The counters PublicKey is called with: of the key files, and one more.
AskedCounters == {k - 1 : k \in DOMAIN KeyPaths} \cup {Len(KeyPaths)}

CallPublicKey(issuer, counter) ==
    /\ Root(issuer) \in DOMAIN SchemeManagers
    /\ \E r \in {PublicKey(Conf, issuer, counter, allocated)} :
          /\ r.allocated <= MaxAllocated
          /\ SetConf(r.conf)
          /\ allocated' = r.allocated
          /\ ret' = [Outcome("PublicKey", Root(issuer), "") EXCEPT !.err = r.err]
    /\ UNCHANGED <<assetTrees, assets, readOnly, remote, keyFiles, goroutines, sessionVars>>

CallCheckKeys ==
    /\ \E r \in {CheckKeys([conf |-> Conf, err |-> "", allocated |-> allocated], 1)} :
          /\ r.allocated <= MaxAllocated
          /\ SetConf(r.conf)
          /\ allocated' = r.allocated
          /\ ret' = [Outcome("CheckKeys", "", "") EXCEPT !.err = r.err]
    /\ UNCHANGED <<assetTrees, assets, readOnly, remote, keyFiles, goroutines, sessionVars>>

CallKeyshareServerPublicKey(scheme, i) ==
    /\ \E r \in {KeyshareServerPublicKey(Conf, scheme, i, allocated)} :
          /\ r.allocated <= MaxAllocated
          /\ SetConf(r.conf)
          /\ allocated' = r.allocated
          /\ ret' = [Outcome("KeyshareServerPublicKey", scheme, "") EXCEPT !.err = r.err]
    /\ UNCHANGED <<assetTrees, assets, readOnly, remote, keyFiles, goroutines, sessionVars>>

ConfNext ==
    \/ CallParseFolder
    \/ \E order \in Orders, outcome \in [Schemes -> RemoteOutcomes] :
          /\ RestoreInputsMatter \/ (order = SchemeOrder /\ outcome = NoRemote)
          /\ CallParseOrRestoreFolder(order, outcome)
    \/ CallPrune
    \/ \E id \in Schemes, fromStorage \in BOOLEAN : CallRemoveSchemeManager(id, fromStorage)
    \/ \E id \in Schemes : CallDeleteSchemeManager(id)
    \/ \E id \in Schemes : CallCopyManagerFromAssets(id)
    \/ \E id \in Schemes, outcome \in RemoteOutcomes : CallReinstallSchemeManager(id, outcome)
    \/ \E id \in Schemes, path \in ReadPaths : CallReadAuthenticatedFile(id, path)
    \/ \E id \in Schemes : CallPublicKey(<<id, "I">>, 0)

ConfSpec == ConfInit /\ [][ConfNext]_vars

(***************************************************************************)
(* The calls that download: one Configuration and the remotes.             *)
(***************************************************************************)
\* The newest version of a scheme: the description of credential type D has
\* changed.
NewVersion ==
    [GoodTree(MaxStamp) EXCEPT !.files[CredentialDescriptions[2]] = "b",
                               !.indexed[CredentialDescriptions[2]] = sha256("b")]

\* The scheme that is installed and updated.
UpdatedSchemes == {"s1"}

\* What the remote of that scheme serves: nothing, a version of the
\* scheme, the newest version with a signature that does not verify, with an
\* index that does not parse, or with a file that is not the one its index
\* lists, and the scheme signed with another key.
RemoteTrees ==
    {NoTree, NewVersion} \cup {GoodTree(t) : t \in 1..MaxStamp}
       \cup { [NewVersion EXCEPT !.sig = "wrong"],
              [NewVersion EXCEPT !.index = "malformed"],
              [NewVersion EXCEPT !.files[CredentialDescriptions[2]] = "x"],
              [GoodTree(MaxStamp) EXCEPT !.pk = "other", !.sig = "other"] }

\* The folders the first scheme starts from.
UpdateStoredTrees == {NoTree, GoodTree(1), [GoodTree(1) EXCEPT !.files[IssuerLogo] = "none"]}

\* NewConfiguration(path) or NewConfigurationReadOnly(path): the other
\* scheme is not stored and has no remote.
UpdateInit ==
    /\ SessionInit
    /\ \E t1 \in UpdateStoredTrees, r1 \in RemoteTrees :
          /\ storage = [s \in Schemes |-> IF s \in UpdatedSchemes THEN t1 ELSE NoTree]
          /\ remote = [s \in Schemes |-> IF s \in UpdatedSchemes THEN r1 ELSE NoTree]
    /\ assetTrees = [s \in Schemes |-> NoTree]
    /\ assets = FALSE
    /\ readOnly \in BOOLEAN
    /\ initialized = FALSE
    /\ SchemeManagers = NoManagers
    /\ DisabledSchemeManagers = NoDisabled
    /\ Issuers = {}
    /\ CredentialTypes = {}
    /\ AttributeTypes = {}
    /\ publicKeys = NoPublicKeys
    /\ reverseHashes = NoReverseHashes
    /\ kssPublicKeys = NoPublicKeys
    /\ NoKeys
    /\ goroutines = <<>>
    /\ ret = Outcome("New", "", "")

CallUpdateSchemeManager(id, order, down) ==
    \E r \in {UpdateSchemeManager(Conf, id, order, down)} :
    /\ SetConf(r.conf)
    /\ ret' = [Outcome("UpdateSchemeManager", id, "") EXCEPT
                  !.err = r.err, !.written = r.written, !.fetched = r.fetched]
    /\ UNCHANGED <<assetTrees, assets, readOnly, remote, keyVars, goroutines, sessionVars>>

CallInstallSchemeManager(id, publickey, order, down) ==
    \E r \in {InstallSchemeManager(Conf, id, DownloadSchemeManager(id), publickey,
                                    order, down)} :
    /\ GetBytes("url", remote[id], SchemeDescription, "none") = ""
    /\ SetConf(r.conf)
    /\ ret' = [Outcome("InstallSchemeManager", id, publickey) EXCEPT
                  !.err = r.err, !.written = r.written, !.fetched = r.fetched]
    /\ UNCHANGED <<assetTrees, assets, readOnly, remote, keyVars, goroutines, sessionVars>>

UpdateNext ==
    \/ CallParseFolder
    \/ \E id \in UpdatedSchemes, order \in FileOrders, down \in Failures :
          CallUpdateSchemeManager(id, order, down)
    \/ \E id \in UpdatedSchemes, publickey \in PinnedKeys, order \in FileOrders,
          down \in Failures :
          CallInstallSchemeManager(id, publickey, order, down)

UpdateSpec == UpdateInit /\ [][UpdateNext]_vars

(***************************************************************************)
(* The calls that look up keys: one Configuration over one scheme.         *)
(***************************************************************************)
\* NewConfiguration(path) over a directory that holds the first scheme, with
\* its key files.
KeyInit ==
    /\ SessionInit
    /\ storage = [s \in Schemes |-> IF s = Root(KeyIssuer) THEN GoodTree(1) ELSE NoTree]
    /\ assetTrees = [s \in Schemes |-> NoTree]
    /\ remote = [s \in Schemes |-> NoTree]
    /\ assets = FALSE
    /\ readOnly = FALSE
    /\ initialized = FALSE
    /\ SchemeManagers = NoManagers
    /\ DisabledSchemeManagers = NoDisabled
    /\ Issuers = {}
    /\ CredentialTypes = {}
    /\ AttributeTypes = {}
    /\ publicKeys = NoPublicKeys
    /\ reverseHashes = NoReverseHashes
    /\ kssPublicKeys = NoPublicKeys
    /\ keyFiles \in KeyFolders
    /\ allocated = 0
    /\ goroutines = <<>>
    /\ ret = Outcome("New", "", "")

KeyNext ==
    \/ CallParseFolder
    \/ \E id \in Schemes, counter \in AskedCounters : CallPublicKey(<<id, "I">>, counter)
    \/ CallCheckKeys
    \/ \E id \in Schemes, i \in KssNumbers : CallKeyshareServerPublicKey(id, i)
    \/ \E id \in Schemes, fromStorage \in BOOLEAN : CallRemoveSchemeManager(id, fromStorage)
    \/ \E id \in Schemes : CallDeleteSchemeManager(id)

KeySpec == KeyInit /\ [][KeyNext]_vars

(***************************************************************************)
(* The index of a scheme as text: SchemeManagerIndex.FromString and        *)
(* SchemeManagerIndex.String over strings of a few characters.             *)
(***************************************************************************)
\* The longest index text.
MaxLen == 6

\* The characters of an index text, with their byte order: the newline, the
\* space, an upper-case hexadecimal digit, a lower-case one, and a letter
\* that is no hexadecimal digit.
Chars == <<"\n", " ", "A", "a", "g">>
Code(ch) == CHOOSE k \in DOMAIN Chars : Chars[k] = ch

\* The index texts: a text is the sequence of its characters.
Texts == UNION {[1..n -> {Chars[k] : k \in DOMAIN Chars}] : n \in 0..MaxLen}

\* strings.Split(s, sep) for a separator of one character.
RECURSIVE Split(_, _)
Split(s, sep) ==
    IF \A k \in DOMAIN s : s[k] # sep THEN <<s>>
    ELSE LET k == CHOOSE j \in DOMAIN s : s[j] = sep /\ \A h \in 1..(j - 1) : s[h] # sep
         IN <<SubSeq(s, 1, k - 1)>> \o Split(SubSeq(s, k + 1, Len(s)), sep)

\* hex.DecodeString(str): the bytes, each written as its two lower-case
\* digits; and hex.EncodeToString(bytes).
HexDigits == {"A", "a"}
ToLower(ch) == IF ch = "A" THEN "a" ELSE ch
DecodeString(str) ==
    IF \E k \in DOMAIN str : str[k] \notin HexDigits
    THEN [bytes |-> <<>>, err |-> "encoding/hex: invalid byte"]
    ELSE IF Len(str) % 2 # 0
    THEN [bytes |-> <<>>, err |-> "encoding/hex: odd length hex string"]
    ELSE [bytes |-> [k \in DOMAIN str |-> ToLower(str[k])], err |-> ""]
EncodeToString(bytes) == bytes

\* An empty SchemeManagerIndex of an index text.
NoEntries == [p \in {} |-> <<>>]

\* The loop of FromString over the lines, from the j-th on. st: the index
\* so far and err.
RECURSIVE fromLines(_, _, _)
fromLines(st, lines, j) ==
    IF j > Len(lines) THEN st
    ELSE IF Len(lines[j]) = 0 THEN fromLines(st, lines, j + 1)
    ELSE LET parts == Split(lines[j], " ") IN
         IF Len(parts) # 2
         THEN [st EXCEPT !.err = "Scheme manager index line has incorrect amount of parts"]
         ELSE LET hash == DecodeString(parts[1]) IN
              IF hash.err # "" THEN [st EXCEPT !.err = hash.err]
              ELSE fromLines([st EXCEPT !.index = Put(@, parts[2], hash.bytes)],
                             lines, j + 1)

\* SchemeManagerIndex.FromString(s) on an empty index: the index and err.
SchemeManagerIndexFromString(s) ==
    fromLines([index |-> NoEntries, err |-> ""], Split(s, "\n"), 1)

\* The order of sort.Strings: byte by byte, a prefix first.
RECURSIVE Before(_, _)
Before(p, q) ==
    IF Len(p) = 0 THEN Len(q) > 0
    ELSE IF Len(q) = 0 THEN FALSE
    ELSE IF p[1] # q[1] THEN Code(p[1]) < Code(q[1])
    ELSE Before(Tail(p), Tail(q))

\* sort.Strings(paths) of the paths of a map.
RECURSIVE SortStrings(_)
SortStrings(paths) ==
    IF paths = {} THEN <<>>
    ELSE LET first == CHOOSE p \in paths : \A q \in paths \ {p} : Before(p, q)
         IN <<first>> \o SortStrings(paths \ {first})

\* The paths of a map in descending order.
RECURSIVE SortStringsDescending(_)
SortStringsDescending(paths) ==
    IF paths = {} THEN <<>>
    ELSE LET last == CHOOSE p \in paths : \A q \in paths \ {p} : Before(q, p)
         IN <<last>> \o SortStringsDescending(paths \ {last})

\* What String writes for the paths given in order.
RECURSIVE WriteLines(_, _)
WriteLines(i, paths) ==
    IF paths = <<>> THEN <<>>
    ELSE EncodeToString(i[paths[1]]) \o <<" ">> \o paths[1] \o <<"\n">>
            \o WriteLines(i, Tail(paths))

\* A String that writes the paths in descending order.
SchemeManagerIndexStringDescending(i) == WriteLines(i, SortStringsDescending(DOMAIN i))

\* SchemeManagerIndex.String()
SchemeManagerIndexString(i) == WriteLines(i, SortStrings(DOMAIN i))

\* One index text, and what the calls made of it.
IndexInit ==
    /\ SessionInit
    /\ storage = <<>>
    /\ assetTrees = <<>>
    /\ remote = <<>>
    /\ assets = FALSE
    /\ readOnly = FALSE
    /\ initialized = FALSE
    /\ SchemeManagers = NoManagers
    /\ DisabledSchemeManagers = NoDisabled
    /\ Issuers = {}
    /\ CredentialTypes = {}
    /\ AttributeTypes = {}
    /\ publicKeys = NoPublicKeys
    /\ reverseHashes = NoReverseHashes
    /\ kssPublicKeys = NoPublicKeys
    /\ NoKeys
    /\ goroutines = <<>>
    /\ \E s \in Texts : ret = [op |-> "text", s |-> s]

\* index.FromString(s) on a new index.
CallFromString ==
    /\ ret.op = "text"
    /\ \E r \in {SchemeManagerIndexFromString(ret.s)} :
          ret' = [op |-> "FromString", s |-> ret.s, index |-> r.index, err |-> r.err]
    /\ UNCHANGED <<storage, assetTrees, assets, readOnly, initialized, SchemeManagers,
                   DisabledSchemeManagers, Issuers, CredentialTypes, AttributeTypes,
                   publicKeys, reverseHashes, kssPublicKeys, remote, keyVars, goroutines,
                   sessionVars>>

\* index.String() of the index that FromString accepted.
CallString ==
    /\ ret.op = "FromString"
    /\ ret.err = ""
    /\ ret' = [op |-> "String", s |-> ret.s, index |-> ret.index,
               out |-> SchemeManagerIndexString(ret.index)]
    /\ UNCHANGED <<storage, assetTrees, assets, readOnly, initialized, SchemeManagers,
                   DisabledSchemeManagers, Issuers, CredentialTypes, AttributeTypes,
                   publicKeys, reverseHashes, kssPublicKeys, remote, keyVars, goroutines,
                   sessionVars>>

\* FromString, on a new index, of what String returned.
CallFromStringAgain ==
    /\ ret.op = "String"
    /\ ret' = [op |-> "FromStringAgain", s |-> ret.s, index |-> ret.index, out |-> ret.out,
               again |-> SchemeManagerIndexFromString(ret.out)]
    /\ UNCHANGED <<storage, assetTrees, assets, readOnly, initialized, SchemeManagers,
                   DisabledSchemeManagers, Issuers, CredentialTypes, AttributeTypes,
                   publicKeys, reverseHashes, kssPublicKeys, remote, keyVars, goroutines,
                   sessionVars>>

IndexNext == CallFromString \/ CallString \/ CallFromStringAgain

IndexSpec == IndexInit /\ [][IndexNext]_vars

(***************************************************************************)
(* fs.SaveFile, step by step: the directory of the file is a map from file *)
(* names to contents, a content the sequence of the chunks written. The    *)
(* process may crash between any two steps.                                *)
(***************************************************************************)
\* The most chunks a content has.
MaxChunks == 2

\* The name of the file that is saved, and the names that
\* hex.EncodeToString(randBytes) may give; the random name is taken not to be
\* the name of the file itself.
SavedName == "f"
TempNames == {"t1", "t2"}

\* The contents a file may have: up to MaxChunks chunks, old ones or new ones.
ContentsOf(kind) == UNION {[1..n -> {kind}] : n \in 0..MaxChunks}

\* The directories SaveFile starts in: the file is absent or holds an old
\* content, and a file with one of the random names may be there already.
Directories ==
    {d \in UNION {[S -> ContentsOf("old")] : S \in SUBSET {SavedName, "t1"}} : TRUE}

\* A temp file written straight at the path of the file.
TempPathIsTarget(fpath, tempfilename) == fpath

\* filepath.Join(dir, tempfilename): the name of the temp file in the
\* directory of fpath.
TempPath(fpath, tempfilename) == tempfilename

\* A call of SaveFile(fpath, content) that has not started, in a directory.
SaveInit ==
    /\ SessionInit
    /\ storage \in Directories
    /\ assetTrees = <<>>
    /\ remote = <<>>
    /\ assets = FALSE
    /\ readOnly = FALSE
    /\ initialized = FALSE
    /\ SchemeManagers = NoManagers
    /\ DisabledSchemeManagers = NoDisabled
    /\ Issuers = {}
    /\ CredentialTypes = {}
    /\ AttributeTypes = {}
    /\ publicKeys = NoPublicKeys
    /\ reverseHashes = NoReverseHashes
    /\ kssPublicKeys = NoPublicKeys
    /\ NoKeys
    /\ goroutines = <<>>
    /\ \E content \in ContentsOf("new") :
          ret = [op |-> "SaveFile", pc |-> "rand", content |-> content, temp |-> "",
                 pre |-> storage, err |-> ""]

\* The call returns err.
Returns(err) == [ret EXCEPT !.pc = "returned", !.err = err]

\* rand.Read(randBytes) and hex.EncodeToString.
RandRead ==
    /\ ret.pc = "rand"
    /\ \/ \E t \in TempNames : ret' = [ret EXCEPT !.pc = "create", !.temp = t]
       \/ ret' = Returns("rand")
    /\ UNCHANGED storage
    /\ UNCHANGED <<assetTrees, assets, readOnly, initialized, SchemeManagers,
                   DisabledSchemeManagers, Issuers, CredentialTypes, AttributeTypes,
                   publicKeys, reverseHashes, kssPublicKeys, remote, keyVars, goroutines,
                   sessionVars>>

\* ioutil.WriteFile opens the temp file, creating or truncating it.
WriteFileOpen ==
    /\ ret.pc = "create"
    /\ \/ /\ storage' = Put(storage, TempPath(SavedName, ret.temp), <<>>)
          /\ ret' = [ret EXCEPT !.pc = "write"]
       \/ /\ ret' = Returns("open")
          /\ UNCHANGED storage
    /\ UNCHANGED <<assetTrees, assets, readOnly, initialized, SchemeManagers,
                   DisabledSchemeManagers, Issuers, CredentialTypes, AttributeTypes,
                   publicKeys, reverseHashes, kssPublicKeys, remote, keyVars, goroutines,
                   sessionVars>>

\* ioutil.WriteFile writes the next chunk of the content, or fails.
WriteChunk ==
    /\ ret.pc = "write"
    /\ LET temp == TempPath(SavedName, ret.temp)
           n == Len(storage[temp])
       IN \/ /\ n < Len(ret.content)
             /\ storage' = [storage EXCEPT ![temp] = Append(@, ret.content[n + 1])]
             /\ UNCHANGED ret
          \/ /\ n < Len(ret.content)
             /\ ret' = Returns("write")
             /\ UNCHANGED storage
          \/ /\ n = Len(ret.content)
             /\ ret' = [ret EXCEPT !.pc = "rename"]
             /\ UNCHANGED storage
    /\ UNCHANGED <<assetTrees, assets, readOnly, initialized, SchemeManagers,
                   DisabledSchemeManagers, Issuers, CredentialTypes, AttributeTypes,
                   publicKeys, reverseHashes, kssPublicKeys, remote, keyVars, goroutines,
                   sessionVars>>

\* os.Rename(temp, fpath): the temp file takes the place of the file in one
\* step, or nothing changes.
Rename ==
    /\ ret.pc = "rename"
    /\ LET temp == TempPath(SavedName, ret.temp) IN
       \/ /\ storage' = [n \in (DOMAIN storage \ {temp}) \cup {SavedName} |->
                            IF n = SavedName THEN storage[temp] ELSE storage[n]]
          /\ ret' = Returns("")
       \/ /\ ret' = Returns("rename")
          /\ UNCHANGED storage
    /\ UNCHANGED <<assetTrees, assets, readOnly, initialized, SchemeManagers,
                   DisabledSchemeManagers, Issuers, CredentialTypes, AttributeTypes,
                   publicKeys, reverseHashes, kssPublicKeys, remote, keyVars, goroutines,
                   sessionVars>>

\* The process crashes: SaveFile takes no further step.
Crash ==
    /\ ret.pc \in {"rand", "create", "write", "rename"}
    /\ ret' = [ret EXCEPT !.pc = "crashed"]
    /\ UNCHANGED storage
    /\ UNCHANGED <<assetTrees, assets, readOnly, initialized, SchemeManagers,
                   DisabledSchemeManagers, Issuers, CredentialTypes, AttributeTypes,
                   publicKeys, reverseHashes, kssPublicKeys, remote, keyVars, goroutines,
                   sessionVars>>

SaveNext == RandRead \/ WriteFileOpen \/ WriteChunk \/ Rename \/ Crash

SaveSpec == SaveInit /\ [][SaveNext]_vars

(***************************************************************************)
(* The background updater: the goroutine of the caller, the goroutine of   *)
(* the scheduler and the goroutine that runs the first update. A goroutine *)
(* is inside UpdateSchemeManager from its call to its return, where the    *)
(* function's writes are taken to happen.                                  *)
(***************************************************************************)
\* A goroutine that is in no call: pc is where it is, op the call it runs,
\* todo the schemes its loop still visits, id the scheme whose
\* UpdateSchemeManager it is in, updated whether its set of downloaded
\* identifiers is nonempty.
Idle == [pc |-> "idle", op |-> "", todo |-> <<>>, id |-> "", updated |-> FALSE]

\* The goroutine after its call returned: the caller is free again, the
\* scheduler waits for the next interval, the first-update goroutine exits.
Finished(g) ==
    IF g = "caller" THEN Idle
    ELSE IF g = "scheduler" THEN [Idle EXCEPT !.pc = "Start"]
    ELSE [Idle EXCEPT !.pc = "exited"]

\* The orders in which a range over conf.SchemeManagers may visit it.
ManagerOrders(c) == {o \in Orders \cup {<<"s1">>, <<"s2">>, <<>>} :
                       /\ {o[i] : i \in DOMAIN o} = DOMAIN c.SchemeManagers
                       /\ Len(o) = Cardinality(DOMAIN c.SchemeManagers)}

\* Whether UpdateSchemeManager added an issuer or a credential type to
\* downloaded: it wrote a description of one.
Downloaded(written) ==
    written \cap {IssuerDescription, CredentialDescriptions[1], CredentialDescriptions[2]} # {}

\* What may go wrong with the network during one update of the background
\* updater.
AutoFailures == {"none", TimestampFile}

\* What the remotes of the two schemes serve.
AutoRemoteTrees == {GoodTree(1), NewVersion}

\* A Configuration over two stored schemes, not yet parsed, and the
\* goroutine of the caller.
AutoInit ==
    /\ SessionInit
    /\ storage = [s \in Schemes |-> GoodTree(1)]
    /\ remote \in [Schemes -> AutoRemoteTrees]
    /\ assetTrees = [s \in Schemes |-> NoTree]
    /\ assets = FALSE
    /\ readOnly \in BOOLEAN
    /\ initialized = FALSE
    /\ SchemeManagers = NoManagers
    /\ DisabledSchemeManagers = NoDisabled
    /\ Issuers = {}
    /\ CredentialTypes = {}
    /\ AttributeTypes = {}
    /\ publicKeys = NoPublicKeys
    /\ reverseHashes = NoReverseHashes
    /\ kssPublicKeys = NoPublicKeys
    /\ NoKeys
    /\ goroutines = [g \in {"caller"} |-> Idle]
    /\ ret = Outcome("New", "", "")

\* conf.ParseFolder() called by the caller.
AutoParseFolder ==
    /\ goroutines["caller"].pc = "idle"
    /\ CallParseFolder

\* AutoUpdateSchemes(interval): scheduler.Start() starts the goroutine of the
\* scheduler, and the go statement the goroutine of the first update.
CallAutoUpdateSchemes ==
    /\ goroutines["caller"].pc = "idle"
    /\ "scheduler" \notin DOMAIN goroutines
    /\ goroutines' = [g \in {"caller", "scheduler", "kickoff"} |->
                        IF g = "caller" THEN goroutines[g]
                        ELSE IF g = "scheduler" THEN [Idle EXCEPT !.pc = "Start"]
                        ELSE [Idle EXCEPT !.pc = "Timer"]]
    /\ ret' = Outcome("AutoUpdateSchemes", "", "")
    /\ UNCHANGED <<storage, assetTrees, assets, readOnly, initialized, SchemeManagers,
                   DisabledSchemeManagers, Issuers, CredentialTypes, AttributeTypes,
                   publicKeys, reverseHashes, kssPublicKeys, remote, keyVars, sessionVars>>

\* StopAutoUpdateSchemes(): nothing when conf.cronchan is nil; otherwise the
\* send on conf.cronchan, which returns when the goroutine of the scheduler
\* receives it between two runs and exits. The goroutine of the first update
\* does not read conf.cronchan. A send that no goroutine receives any more
\* does not return.
CallStopAutoUpdateSchemes ==
    /\ goroutines["caller"].pc = "idle"
    /\ "scheduler" \in DOMAIN goroutines => goroutines["scheduler"].pc = "Start"
    /\ goroutines' = IF "scheduler" \in DOMAIN goroutines
                     THEN [goroutines EXCEPT !["scheduler"].pc = "stopped"]
                     ELSE goroutines
    /\ ret' = Outcome("StopAutoUpdateSchemes", "", "")
    /\ UNCHANGED <<storage, assetTrees, assets, readOnly, initialized, SchemeManagers,
                   DisabledSchemeManagers, Issuers, CredentialTypes, AttributeTypes,
                   publicKeys, reverseHashes, kssPublicKeys, remote, keyVars, sessionVars>>

\* The goroutine g enters UpdateSchemes(): the caller by calling it, the
\* scheduler when the interval has passed, the first-update goroutine when
\* its timer of 200 ms fires and it calls scheduler.RunAll().
EnterUpdateSchemes(g) ==
    /\ g \in DOMAIN goroutines
    /\ goroutines[g].pc = (IF g = "caller" THEN "idle"
                           ELSE IF g = "scheduler" THEN "Start" ELSE "Timer")
    /\ \E o \in ManagerOrders(Conf) :
          goroutines' = [goroutines EXCEPT ![g] =
             [pc |-> "range", op |-> "UpdateSchemes", todo |-> o, id |-> "",
              updated |-> FALSE]]
    /\ ret' = Outcome("UpdateSchemes", g, "")
    /\ UNCHANGED <<storage, assetTrees, assets, readOnly, initialized, SchemeManagers,
                   DisabledSchemeManagers, Issuers, CredentialTypes, AttributeTypes,
                   publicKeys, reverseHashes, kssPublicKeys, remote, keyVars, sessionVars>>

\* The caller enters Download(session) for a session request that needs
\* something of the scheme id that the Configuration does not have.
EnterDownload(id) ==
    /\ goroutines["caller"].pc = "idle"
    /\ goroutines' = [goroutines EXCEPT !["caller"] =
          IF readOnly THEN Idle
          ELSE [pc |-> "range", op |-> "Download", todo |-> <<id>>, id |-> "",
                updated |-> FALSE]]
    /\ ret' = [Outcome("Download", "caller", id) EXCEPT
                  !.err = IF readOnly THEN "cannot download into a read-only configuration"
                          ELSE ""]
    /\ UNCHANGED <<storage, assetTrees, assets, readOnly, initialized, SchemeManagers,
                   DisabledSchemeManagers, Issuers, CredentialTypes, AttributeTypes,
                   publicKeys, reverseHashes, kssPublicKeys, remote, keyVars, sessionVars>>

\* The loop of g calls conf.UpdateSchemeManager for its next scheme.
EnterUpdateSchemeManager(g) ==
    /\ g \in DOMAIN goroutines
    /\ goroutines[g].pc = "range"
    /\ goroutines[g].todo # <<>>
    /\ goroutines' = [goroutines EXCEPT ![g].pc = "UpdateSchemeManager",
                                        ![g].id = Head(goroutines[g].todo),
                                        ![g].todo = Tail(@)]
    /\ ret' = Outcome("EnterUpdateSchemeManager", g, Head(goroutines[g].todo))
    /\ UNCHANGED <<storage, assetTrees, assets, readOnly, initialized, SchemeManagers,
                   DisabledSchemeManagers, Issuers, CredentialTypes, AttributeTypes,
                   publicKeys, reverseHashes, kssPublicKeys, remote, keyVars, sessionVars>>

\* conf.UpdateSchemeManager returns to g: with an error the call of g returns
\* it, otherwise the loop goes on.
ReturnUpdateSchemeManager(g, down) ==
    /\ g \in DOMAIN goroutines
    /\ goroutines[g].pc = "UpdateSchemeManager"
    /\ \E r \in {UpdateSchemeManager(Conf, goroutines[g].id, SortedFiles, down)} :
          /\ SetConf(r.conf)
          /\ goroutines' = [goroutines EXCEPT ![g] =
                IF r.err # "" THEN Finished(g)
                ELSE [@ EXCEPT !.pc = "range", !.id = "",
                               !.updated = @ \/ Downloaded(r.written)]]
          /\ ret' = [Outcome("UpdateSchemeManager", g, goroutines[g].id) EXCEPT
                        !.err = r.err, !.written = r.written, !.fetched = r.fetched]
    /\ UNCHANGED <<assetTrees, assets, readOnly, remote, keyVars, sessionVars>>

\* The loop of g is over: conf.ParseFolder() if anything was downloaded, and
\* the call of g returns.
ReturnUpdateSchemes(g) ==
    /\ g \in DOMAIN goroutines
    /\ goroutines[g].pc = "range"
    /\ goroutines[g].todo = <<>>
    /\ \E r \in {IF goroutines[g].updated THEN ParseFolder(Conf)
                  ELSE [conf |-> Conf, err |-> ""]} :
          /\ SetConf(r.conf)
          /\ ret' = [Outcome(goroutines[g].op, g, "returned") EXCEPT !.err = r.err]
    /\ goroutines' = [goroutines EXCEPT ![g] = Finished(g)]
    /\ UNCHANGED <<assetTrees, assets, readOnly, remote, keyVars, sessionVars>>

Goroutines == {"caller", "scheduler", "kickoff"}

AutoNext ==
    \/ AutoParseFolder
    \/ CallAutoUpdateSchemes
    \/ CallStopAutoUpdateSchemes
    \/ \E g \in Goroutines : EnterUpdateSchemes(g)
    \/ \E id \in Schemes : EnterDownload(id)
    \/ \E g \in Goroutines : EnterUpdateSchemeManager(g)
    \/ \E g \in Goroutines, down \in AutoFailures : ReturnUpdateSchemeManager(g, down)
    \/ \E g \in Goroutines : ReturnUpdateSchemes(g)

AutoSpec == AutoInit /\ [][AutoNext]_vars


(***************************************************************************)
(* Reading the outcome of the calls on the Configuration.                  *)
(***************************************************************************)
\* The calls that load every stored scheme folder anew.
LoadCalls == {"ParseFolder", "ParseOrRestoreFolder"}

\* ParseFolder returned without failing on the assets.
Loaded == ret.op = "ParseFolder" /\ (ret.err = "" \/ ret.id # "")

\* A folder that is a signed scheme without any fault.
FaultFree(tree) == \E t \in 1..MaxStamp : tree = GoodTree(t)

\* A fault-free scheme folder but for the file at path, whose bytes changed.
OtherwiseValid(tree, path) ==
    /\ tree.files[path] \notin {"a", "none"}
    /\ tree.indexed = [p \in Paths |-> sha256("a")]
    /\ FaultFree([tree EXCEPT !.files[path] = "a"])

(***************************************************************************)
(* C12: ReadAuthenticatedFile returns bytes only when the path is a key of  *)
(* the manager's in-memory index and the SHA-256 of the bytes read equals   *)
(* the hash recorded there. For a path that is not in the index it returns  *)
(* no bytes, found=false and no error; when the read fails or the hash does *)
(* not match it returns no bytes, found=true and an error. It never         *)
(* returns bytes together with an error.                                    *)
(***************************************************************************)
C12_AuthenticatedRead ==
    ret.op = "ReadAuthenticatedFile" =>
       LET index == SchemeManagers[ret.id].index
           file == storage[ret.id].files[ret.arg]
       IN /\ ret.bts # "none" =>
               /\ ret.arg \in DOMAIN index
               /\ ret.bts = file
               /\ sha256(ret.bts) = index[ret.arg]
          /\ ret.arg \notin DOMAIN index =>
               (ret.bts = "none" /\ ~ret.found /\ ret.err = "")
          /\ (ret.arg \in DOMAIN index /\ file = "none") =>
               (ret.bts = "none" /\ ret.found /\ ret.err # "")
          /\ (ret.arg \in DOMAIN index /\ file # "none" /\ sha256(file) # index[ret.arg]) =>
               (ret.bts = "none" /\ ret.found /\ ret.err # "")
          /\ ~(ret.bts # "none" /\ ret.err # "")

\* A file of the index whose bytes on disk changed was read, and refused.
C12_Witness ==
    /\ ret.op = "ReadAuthenticatedFile"
    /\ ret.arg \in DOMAIN SchemeManagers[ret.id].index
    /\ storage[ret.id].files[ret.arg] # "none"
    /\ sha256(storage[ret.id].files[ret.arg]) # SchemeManagers[ret.id].index[ret.arg]
    /\ ret.err # ""

(***************************************************************************)
(* C13: whenever ParseSchemeManagerFolder marks a scheme Valid, the         *)
(* signature on its index was verified and every file listed in the index   *)
(* was present on disk with a SHA-256 equal to the indexed hash.            *)
(***************************************************************************)
C13_ValidMeansAllPresentAndMatching ==
    ret.op \in LoadCalls =>
       \A id \in DOMAIN SchemeManagers :
          SchemeManagers[id].Valid =>
             /\ VerifySignature(storage[id]) = ""
             /\ \A file \in DOMAIN SchemeManagers[id].index :
                   /\ storage[id].files[file] # "none"
                   /\ sha256(storage[id].files[file]) = SchemeManagers[id].index[file]

\* C13, amended: whenever ParseSchemeManagerFolder marks a scheme Valid, the
\* signature on its index was verified and every file listed in the index
\* that is present on disk has a SHA-256 equal to the indexed hash.
C13_ValidMeansPresentFilesMatch ==
    ret.op \in LoadCalls =>
       \A id \in DOMAIN SchemeManagers :
          SchemeManagers[id].Valid =>
             /\ VerifySignature(storage[id]) = ""
             /\ SchemeManagers[id].index = storage[id].indexed
             /\ \A file \in DOMAIN SchemeManagers[id].index :
                   storage[id].files[file] # "none" =>
                      sha256(storage[id].files[file]) = SchemeManagers[id].index[file]

\* A scheme was marked Valid while a file of its index is not on disk.
C13_Witness ==
    /\ ret.op \in LoadCalls
    /\ \E id \in DOMAIN SchemeManagers :
          /\ SchemeManagers[id].Valid
          /\ \E file \in DOMAIN SchemeManagers[id].index : storage[id].files[file] = "none"

(***************************************************************************)
(* C14: when verifying the signature on the index fails while a scheme is   *)
(* loaded (index, index.sig or pk.pem missing, a malformed key or           *)
(* signature, or a signature that does not verify), the scheme's status is  *)
(* InvalidSignature, the scheme is not Valid, and the SchemeManagerError    *)
(* carries InvalidSignature.                                                *)
(***************************************************************************)
C14_SignatureFailureIsInvalidSignature ==
    Loaded =>
       \A id \in DOMAIN SchemeManagers :
          VerifySignature(storage[id]) # "" =>
             /\ SchemeManagers[id].Status = SchemeManagerStatusInvalidSignature
             /\ ~SchemeManagers[id].Valid
             /\ id \in DOMAIN DisabledSchemeManagers
             /\ DisabledSchemeManagers[id] = SchemeManagerStatusInvalidSignature

(***************************************************************************)
(* C15: when the description.xml of an indexed credential type of an        *)
(* otherwise valid scheme is changed on disk, so that its hash no longer    *)
(* matches the index, loading marks the scheme ContentParsingError and      *)
(* records it in DisabledSchemeManagers.                                    *)
(***************************************************************************)
C15_TamperedCredentialIsContentParsingError ==
    Loaded =>
       \A id \in DOMAIN SchemeManagers, k \in 1..Len(CredentialDescriptions) :
          OtherwiseValid(storage[id], CredentialDescriptions[k]) =>
             /\ SchemeManagers[id].Status = SchemeManagerStatusContentParsingError
             /\ id \in DOMAIN DisabledSchemeManagers

\* C15, amended: when the description.xml of an indexed credential type of an
\* otherwise valid scheme is changed on disk, so that its hash no longer
\* matches the index, loading marks the scheme InvalidSignature (and not
\* Valid) and records it in DisabledSchemeManagers with that status.
C15_TamperedCredentialIsInvalidSignature ==
    Loaded =>
       \A id \in DOMAIN SchemeManagers, k \in 1..Len(CredentialDescriptions) :
          OtherwiseValid(storage[id], CredentialDescriptions[k]) =>
             /\ SchemeManagers[id].Status = SchemeManagerStatusInvalidSignature
             /\ ~SchemeManagers[id].Valid
             /\ id \in DOMAIN DisabledSchemeManagers
             /\ DisabledSchemeManagers[id] = SchemeManagerStatusInvalidSignature

\* A scheme whose only fault is a changed credential type description was
\* loaded and disabled.
C15_Witness ==
    /\ Loaded
    /\ \E id \in DOMAIN DisabledSchemeManagers, k \in 1..Len(CredentialDescriptions) :
          OtherwiseValid(storage[id], CredentialDescriptions[k])

C17_NoErrorMeansAllValid ==
    (ret.op = "ParseOrRestoreFolder" /\ ret.err = "") =>
       /\ DOMAIN DisabledSchemeManagers = {}
       /\ \A id \in DOMAIN SchemeManagers : SchemeManagers[id].Valid

(***************************************************************************)
(* C18: a read-only Configuration never alters the storage on disk: every   *)
(* mutating operation (among them RemoveSchemeManager with or without       *)
(* fromStorage, DeleteSchemeManager, Prune, CopyManagerFromAssets and       *)
(* ReinstallSchemeManager) leaves the storage as it was.                    *)
(***************************************************************************)
C18_ReadOnlyNeverAltersStorage == readOnly => storage = ret.pre

(***************************************************************************)
(* C19: after Prune the Configuration holds no scheme manager that is not   *)
(* Valid and nothing owned by one (Issuers, CredentialTypes,                *)
(* AttributeTypes, cached public keys), while every Valid scheme and what   *)
(* it owns is left as it was.                                               *)
(***************************************************************************)
C19_PruneRemovesInvalidOnly ==
    [][CallPrune =>
         /\ \A id \in DOMAIN SchemeManagers' : SchemeManagers'[id].Valid
         /\ \A x \in Issuers' \cup CredentialTypes' \cup AttributeTypes'
                        \cup DOMAIN publicKeys' :
               Root(x) \in DOMAIN SchemeManagers'
         /\ \A id \in DOMAIN SchemeManagers :
               SchemeManagers[id].Valid =>
                  /\ id \in DOMAIN SchemeManagers'
                  /\ SchemeManagers'[id] = SchemeManagers[id]
                  /\ \A x \in Issuers \cup CredentialTypes \cup AttributeTypes
                              \cup DOMAIN publicKeys :
                        Root(x) = id =>
                           x \in Issuers' \cup CredentialTypes' \cup AttributeTypes'
                                    \cup DOMAIN publicKeys'
      ]_vars

(***************************************************************************)
(* C20: when ParseFolder runs on a writable Configuration with assets, for  *)
(* each scheme under the assets whose asset timestamp is strictly newer     *)
(* than the stored one, or whose stored timestamp is absent, the stored     *)
(* scheme folder is replaced by an exact copy of the asset folder; when the *)
(* asset timestamp is equal or older the stored folder is left untouched.   *)
(***************************************************************************)
AssetRule(id) ==
    LET new == assetTrees[id].timestamp
        old == ret.pre[id].timestamp
    IN /\ (old = <<>> \/ (new # <<>> /\ new[1] > old[1])) =>
             storage[id] = [assetTrees[id] EXCEPT !.exists = TRUE]
       /\ (old # <<>> /\ new # <<>> /\ new[1] <= old[1]) => storage[id] = ret.pre[id]

CredentialTypeIdentifiers == {<<s, "I", CredNames[k]>> : s \in Schemes, k \in DOMAIN CredNames}

C28_ReverseHashLookup ==
    /\ \A C \in CredentialTypes :
          hashToCredentialType(Conf, First16(sha256(String(C)))) = C
    /\ \A C \in CredentialTypeIdentifiers \ CredentialTypes :
          hashToCredentialType(Conf, First16(sha256(String(C)))) = NilCredentialType
    /\ \A C \in CredentialTypeIdentifiers :
          hashToCredentialType(Conf, sha256(String(C))) = NilCredentialType

\* Credential types are loaded, and conf.reverseHashes still holds the hash of
\* one that was removed.
C28_Witness ==
    /\ CredentialTypes # {}
    /\ \E C \in CredentialTypeIdentifiers \ CredentialTypes :
          base64(First16(sha256(String(C)))) \in DOMAIN reverseHashes

(***************************************************************************)
(* C29: parsing an index in which the hash field of some entry is not      *)
(* exactly 64 hexadecimal characters fails, and a scheme with such an      *)
(* index is marked InvalidIndex instead of being loaded.                   *)
(***************************************************************************)
C29_BadHashLengthIsInvalidIndex ==
    Loaded =>
       \A id \in Schemes :
          (/\ storage[id].exists
           /\ VerifySignature(storage[id]) = ""
           /\ storage[id].index = "ok"
           /\ \E p \in DOMAIN storage[id].indexed :
                 storage[id].indexed[p] \in {ShortHash, OddHash}) =>
             /\ parseIndex(storage[id]).err # ""
             /\ id \in DOMAIN DisabledSchemeManagers
             /\ DisabledSchemeManagers[id] = SchemeManagerStatusInvalidIndex
             /\ ~SchemeManagers[id].Valid

(***************************************************************************)
(* C30: a file that is present in a scheme's folder but missing from the   *)
(* index only produces a warning: a scheme that loads Valid without that   *)
(* file also loads Valid with it, whatever the file's name and place.      *)
(***************************************************************************)
\* Whether scheme id would load Valid if its folder were tree.
LoadsValid(id, tree) ==
    ParseSchemeManagerFolder([clear(Conf) EXCEPT !.storage[id] = tree],
                             id, NewSchemeManager(id)).err = ""

\* The files checkUnsignedFiles warns about in the folder of scheme id.
Ignored(id) == checkUnsignedFiles(parseIndex(storage[id]).index, storage[id])

C30_UnsignedFileOnlyWarns ==
    Loaded =>
       \A id \in Schemes : \A path \in Ignored(id) :
          (/\ storage[id].exists
           /\ LoadsValid(id, [storage[id] EXCEPT !.files[path] = "none"])) =>
             (id \in DOMAIN SchemeManagers /\ SchemeManagers[id].Valid)

\* The description files that loading reads with pathToDescription.
ParsedDescriptions ==
    {SchemeDescription, IssuerDescription} \cup
       {CredentialDescriptions[k] : k \in DOMAIN CredentialDescriptions}

\* C30, amended: the same for every unsigned file that is not a
\* description.xml which loading reads; an unsigned description.xml of an
\* issuer or credential type makes the scheme fail loading.
C30_UnsignedFileOutsideDescriptionsOnlyWarns ==
    Loaded =>
       \A id \in Schemes : \A path \in Ignored(id) :
          (/\ storage[id].exists
           /\ LoadsValid(id, [storage[id] EXCEPT !.files[path] = "none"])) =>
             /\ id \in DOMAIN SchemeManagers
             /\ path \notin ParsedDescriptions => SchemeManagers[id].Valid
             /\ path \in ParsedDescriptions =>
                   /\ ~SchemeManagers[id].Valid
                   /\ id \in DOMAIN DisabledSchemeManagers
                   /\ DisabledSchemeManagers[id] = SchemeManagerStatusContentParsingError

\* A scheme with an unsigned file that loading does not read was loaded Valid.
C30_Witness ==
    /\ Loaded
    /\ \E id \in Schemes :
          /\ storage[id].exists
          /\ Ignored(id) # {}
          /\ Ignored(id) \cap ParsedDescriptions = {}
          /\ id \in DOMAIN SchemeManagers
          /\ SchemeManagers[id].Valid


(***************************************************************************)
(* Reading the outcome of the calls that download.                         *)
(***************************************************************************)
\* The errors of VerifySignature.
SignatureErrors ==
    {"Missing scheme manager index file, signature, or public key",
     "Invalid scheme manager public key",
     "Scheme manager index signature failed to verify",
     "Scheme manager signature was invalid"}

(***************************************************************************)
(* C21: UpdateSchemeManager is idempotent when the remote has not changed: *)
(* if the remote timestamp is not strictly newer than the stored one it    *)
(* fetches nothing beyond the timestamp and writes no file; and a second   *)
(* UpdateSchemeManager directly after a successful one, against the same   *)
(* remote, rewrites no file.                                               *)
(***************************************************************************)
C21_UpdateIsIdempotent ==
    [][\A id \in UpdatedSchemes, order \in FileOrders :
          CallUpdateSchemeManager(id, order, "none") =>
             /\ (/\ id \in DOMAIN SchemeManagers
                 /\ Serves(remote[id], TimestampFile)
                 /\ SchemeManagers[id].URL # ""
                 /\ ~(SchemeManagers[id].Timestamp < remote[id].timestamp[1])) =>
                   (ret'.err = "" /\ ret'.written = {} /\ ret'.fetched = {TimestampFile})
             /\ (ret.op = "UpdateSchemeManager" /\ ret.id = id /\ ret.err = "") =>
                   ret'.written = {}
      ]_vars

(***************************************************************************)
(* C22: if downloading the new index or index.sig fails, or the new index  *)
(* does not verify against the stored pk.pem, UpdateSchemeManager aborts   *)
(* and index and index.sig on disk are the same as before the call.        *)
(***************************************************************************)
C22_FailedSignatureDownloadLeavesIndex ==
    (/\ ret.op = "UpdateSchemeManager"
     /\ "index" \in ret.fetched
     /\ ret.err \in {"transport"} \cup SignatureErrors
     /\ ret.fetched \subseteq {TimestampFile, "index", "index.sig"}) =>
       /\ storage[ret.id].index = ret.pre[ret.id].index
       /\ storage[ret.id].indexed = ret.pre[ret.id].indexed
       /\ storage[ret.id].sig = ret.pre[ret.id].sig

(***************************************************************************)
(* C23: during UpdateSchemeManager a file of the index is written to the   *)
(* scheme folder only if the downloaded bytes hash to its entry in the     *)
(* newly downloaded index, whose signature was verified; a download whose  *)
(* hash differs is not written and makes the update return an error.       *)
(***************************************************************************)
\* A file that UpdateSchemeManager fetched and whose bytes, as the remote
\* serves them, do not hash to the entry of the index on disk.
Mismatch(f) ==
    /\ f \in ret.fetched \cap Paths
    /\ f \in DOMAIN storage[ret.id].indexed
    /\ sha256(remote[ret.id].files[f]) # storage[ret.id].indexed[f]

C23_OnlyVerifiedDownloadsAreWritten ==
    ret.op = "UpdateSchemeManager" =>
       /\ \A f \in ret.written \cap Paths :
             /\ VerifySignature(storage[ret.id]) = ""
             /\ storage[ret.id].index = remote[ret.id].index
             /\ storage[ret.id].indexed = remote[ret.id].indexed
             /\ f \in DOMAIN storage[ret.id].indexed
             /\ storage[ret.id].files[f] = remote[ret.id].files[f]
             /\ sha256(storage[ret.id].files[f]) = storage[ret.id].indexed[f]
       /\ \A f \in Paths :
             Mismatch(f) =>
                /\ ret.err # ""
                /\ f \notin ret.written
                /\ storage[ret.id].files[f] = ret.pre[ret.id].files[f]

\* An update wrote a file and then met a download whose hash differs.
C23_Witness ==
    /\ ret.op = "UpdateSchemeManager"
    /\ ret.written \cap UpdateFiles # {}
    /\ \E f \in Paths : Mismatch(f) /\ ret.err = "Signature over new file is not valid"

C25_ReinstallKeepsBrokenVersion ==
    [][\A id \in Schemes :
          CallReinstallSchemeManager(id, "unreachable") =>
             /\ ret'.err # ""
             /\ UNCHANGED <<storage, initialized, SchemeManagers, DisabledSchemeManagers,
                            Issuers, CredentialTypes, AttributeTypes, publicKeys,
                            reverseHashes, kssPublicKeys>>
      ]_vars

\* A scheme that is not Valid is still there after a reinstall that could
\* not download anything.
C25_Witness ==
    /\ ret.op = "ReinstallSchemeManager"
    /\ ret.arg = "unreachable"
    /\ ret.err = "transport"
    /\ ret.id \in DOMAIN SchemeManagers
    /\ ~SchemeManagers[ret.id].Valid
    /\ storage[ret.id].exists
    /\ storage[ret.id] = ret.pre[ret.id]


(***************************************************************************)
(* C27: the public-key cache and the keyshare-key cache are write-once per *)
(* key: once a key is cached for (issuer, counter) or for (scheme, key     *)
(* id), no lookup (PublicKey, KeyshareServerPublicKey, CheckKeys),         *)
(* successful or failing, overwrites or removes the cached entry, so later *)
(* lookups return the same object.                                         *)
(***************************************************************************)
\* The calls that look up keys.
KeyLookups == {"PublicKey", "KeyshareServerPublicKey", "CheckKeys"}

C27_KeyCachesAreWriteOnce ==
    [][ret'.op \in KeyLookups =>
          /\ \A id \in DOMAIN publicKeys : \A counter \in DOMAIN publicKeys[id] :
                /\ id \in DOMAIN publicKeys'
                /\ counter \in DOMAIN publicKeys'[id]
                /\ publicKeys'[id][counter] = publicKeys[id][counter]
          /\ \A scheme \in DOMAIN kssPublicKeys : \A i \in DOMAIN kssPublicKeys[scheme] :
                /\ scheme \in DOMAIN kssPublicKeys'
                /\ i \in DOMAIN kssPublicKeys'[scheme]
                /\ kssPublicKeys'[scheme][i] = kssPublicKeys[scheme][i]
      ]_vars

(***************************************************************************)
(* C26: with autoupdate armed, no two executions of UpdateSchemeManager    *)
(* for the same scheme id are in flight at the same time, whether started  *)
(* by the periodic runs of the scheduler, by the first run about 200 ms    *)
(* after arming, or by the caller through Download or UpdateSchemes.       *)
(***************************************************************************)
C26_NoConcurrentUpdateOfOneScheme ==
    \A g \in DOMAIN goroutines : \A h \in DOMAIN goroutines :
       (/\ g # h
        /\ goroutines[g].pc = "UpdateSchemeManager"
        /\ goroutines[h].pc = "UpdateSchemeManager")
          => goroutines[g].id # goroutines[h].id

(***************************************************************************)
(* C33: after approval the message POSTed by a session comes from exactly  *)
(* one proof path: when the request is not distributed the proofs or issue *)
(* commitments are computed locally and no keyshare sub-session is         *)
(* started; when it is distributed a keyshare sub-session is started and   *)
(* the only message POSTed is the one it delivers through KeyshareDone.    *)
(***************************************************************************)
\* The session was approved and session.do has run.
Approved ==
    /\ pc \in {"keyshare", "done"}
    /\ \E i \in Idx : trace[i].ev = "callback" /\ trace[i].arg = "true"

C33_OneProofPath ==
    /\ Count("POST") <= 1
    /\ Approved =>
         IF ~irmaSession.distributed
         THEN /\ Called(ProofCalls)
              /\ ~Called(BuilderCalls \cup {"startKeyshareSession", "KeyshareDone"})
              /\ \A i \in Idx : trace[i].ev = "POST" =>
                    /\ trace[i].info = "local"
                    /\ trace[i - 1].ev \in ProofCalls
                    /\ trace[i - 1].info = "ok"
         ELSE /\ Count("startKeyshareSession") = 1
              /\ ~Called(ProofCalls)
              /\ \A i \in Idx : trace[i].ev = "POST" =>
                    /\ trace[i].info = "keyshare"
                    /\ trace[i - 1].ev = "KeyshareDone"
                    /\ PosOf({"startKeyshareSession"}) < i - 1

\* A distributed session that was approved and POSTed the message of its
\* keyshare sub-session.
C33_Witness ==
    /\ Approved
    /\ irmaSession.distributed
    /\ \E i \in Idx : trace[i].ev = "POST" /\ trace[i].info = "keyshare"

(***************************************************************************)
(* C37: once a session has called Handler.Failure it performs no further   *)
(* protocol step: it starts no keyshare sub-session, computes no proofs,   *)
(* sends no POST and invokes no further Handler callback; a failure to     *)
(* build the proof builders on the keyshare path ends the session there.   *)
(***************************************************************************)
C37_NothingAfterFailure ==
    /\ \A i \in Idx : trace[i].ev = "Failure" => Len(trace) = i
    /\ Called({"Failure"}) => pc = "done"

(***************************************************************************)
(* C35: when ParseFolder produced a scheme error and the Configuration is  *)
(* writable and has assets or a remote URL, ParseOrRestoreFolder attempts  *)
(* recovery of every disabled scheme: first a reinstall from the scheme's  *)
(* remote, and only if that fails a copy from assets followed by a         *)
(* re-parse; a scheme whose recovery succeeds is no longer in              *)
(* DisabledSchemeManagers. When the Configuration is read-only, no         *)
(* recovery is attempted and nothing on disk changes.                      *)
(***************************************************************************)
\* What ParseOrRestoreFolder tried for the scheme id, in the order it tried.
AttemptsFor(id) == SelectSeq(ret.attempts, LAMBDA a : a[1] = id)

\* Recovery of id went as it should: the remote first, the assets only after
\* the remote failed, and a recovered scheme is not disabled.
RecoveredInOrder(id) ==
    LET a == AttemptsFor(id) IN
    /\ a # <<>>
    /\ a[1][2] = "reinstall"
    /\ Len(a) > 1 => (a[1][3] = "err" /\ a[2][2] = "assets" /\ Len(a) = 2)
    /\ a[Len(a)][3] = "ok" => id \notin DOMAIN DisabledSchemeManagers

C35_RestoreEveryDisabledScheme ==
    ret.op = "ParseOrRestoreFolder" =>
       /\ ~readOnly =>
             \A id \in ret.failed :
                (assets \/ id \in ret.urls) => RecoveredInOrder(id)
       /\ readOnly => (ret.attempts = <<>> /\ storage = ret.pre)

(***************************************************************************)
(* C38: after any sequence of ParseFolder, ParseOrRestoreFolder,           *)
(* InstallSchemeManager, ReinstallSchemeManager, RemoveSchemeManager,      *)
(* DeleteSchemeManager and Prune, every id in DisabledSchemeManagers is    *)
(* also a key of SchemeManagers whose scheme is not Valid, and no Valid    *)
(* scheme has an entry in DisabledSchemeManagers.                          *)
(***************************************************************************)
C38_DisabledAreInvalidManagers ==
    /\ \A id \in DOMAIN DisabledSchemeManagers :
          /\ id \in DOMAIN SchemeManagers
          /\ ~SchemeManagers[id].Valid
    /\ \A id \in DOMAIN SchemeManagers :
          SchemeManagers[id].Valid => id \notin DOMAIN DisabledSchemeManagers

(***************************************************************************)
(* C40: after RemoveSchemeManager or DeleteSchemeManager of a scheme, no   *)
(* cached key material of that scheme remains in the Configuration (issuer *)
(* public keys, keyshare server public keys), so that a later lookup       *)
(* cannot return a key cached before the removal.                          *)
(***************************************************************************)
C40_NoKeyMaterialAfterRemoval ==
    ret.op \in {"RemoveSchemeManager", "DeleteSchemeManager"} =>
       /\ \A issuer \in DOMAIN publicKeys : Root(issuer) # ret.id
       /\ ret.id \in DOMAIN kssPublicKeys => DOMAIN kssPublicKeys[ret.id] = {}

(***************************************************************************)
(* C31: for every index text s that FromString accepts, String() of the    *)
(* parsed index equals the canonical form of s: the same entries, one per  *)
(* line as '<hex-hash> <path>', in lexicographic path order, each          *)
(* terminated by a newline; and parsing that output again yields the same  *)
(* index.                                                                  *)
(***************************************************************************)
\* The entries of the text s: its lines that are not empty, as they stand.
Entries(s) == SelectSeq(Split(s, "\n"), LAMBDA line : Len(line) > 0)

\* The path of an entry, and the entry with its hash in lower case.
PathOf(line) == Split(line, " ")[2]
Canonical(line) ==
    [k \in 1..Len(Split(line, " ")[1]) |-> ToLower(line[k])] \o <<" ">> \o PathOf(line)

\* The entries in path order, entries of one path in the order of the text.
RECURSIVE SortEntries(_)
SortEntries(lines) ==
    IF lines = <<>> THEN <<>>
    ELSE LET k == CHOOSE j \in DOMAIN lines :
                     /\ \A h \in DOMAIN lines : ~Before(PathOf(lines[h]), PathOf(lines[j]))
                     /\ \A h \in 1..(j - 1) : PathOf(lines[h]) # PathOf(lines[j])
         IN <<lines[k]>> \o SortEntries(SubSeq(lines, 1, k - 1)
                                        \o SubSeq(lines, k + 1, Len(lines)))

\* The lines written one after the other, each with its newline.
RECURSIVE Joined(_)
Joined(lines) ==
    IF lines = <<>> THEN <<>>
    ELSE Canonical(lines[1]) \o <<"\n">> \o Joined(Tail(lines))

\* canonical_sort(s) of a text that FromString accepts.
CanonicalSort(s) == Joined(SortEntries(Entries(s)))

\* No two entries of s have the same path.
DistinctPaths(s) ==
    \A h, j \in DOMAIN Entries(s) :
       PathOf(Entries(s)[h]) = PathOf(Entries(s)[j]) => h = j

C31_StringIsCanonicalSort ==
    /\ ret.op = "String" => ret.out = CanonicalSort(ret.s)
    /\ ret.op = "FromStringAgain" => (ret.again.err = "" /\ ret.again.index = ret.index)

\* C31, for the texts that list every path once: String() of the parsed
\* index is the canonical form of s, and parsing it again yields the same
\* index; the latter for every text that FromString accepts.
C31_StringIsCanonicalSortOfDistinctPaths ==
    /\ (ret.op = "String" /\ DistinctPaths(ret.s)) => ret.out = CanonicalSort(ret.s)
    /\ ret.op = "FromStringAgain" => (ret.again.err = "" /\ ret.again.index = ret.index)

\* A text of two entries that are not in path order, parsed, written and
\* parsed again.
C31_Witness ==
    /\ ret.op = "FromStringAgain"
    /\ Len(Entries(ret.s)) = 2
    /\ Before(PathOf(Entries(ret.s)[2]), PathOf(Entries(ret.s)[1]))

(***************************************************************************)
(* C32: SaveFile is atomic per file: if the process crashes at any point   *)
(* during SaveFile(path, content), the file at path afterwards holds       *)
(* either its complete previous content (or is still absent) or the        *)
(* complete new content, never a partial write. The same holds at every    *)
(* other point of the call.                                                *)
(***************************************************************************)
C32_SaveFileIsAtomic ==
    IF SavedName \in DOMAIN storage
    THEN \/ storage[SavedName] = ret.content
         \/ SavedName \in DOMAIN ret.pre /\ storage[SavedName] = ret.pre[SavedName]
    ELSE SavedName \notin DOMAIN ret.pre

\* The process crashed while the temp file held a part of the new content,
\* and the file holds its previous content.
C32_Witness ==
    /\ ret.pc = "crashed"
    /\ ret.temp # ""
    /\ TempPath(SavedName, ret.temp) \in DOMAIN storage
    /\ Len(storage[TempPath(SavedName, ret.temp)]) = 1
    /\ Len(ret.content) = MaxChunks
    /\ SavedName \in DOMAIN storage
    /\ storage[SavedName] = ret.pre[SavedName]
    /\ Len(storage[SavedName]) > 0

(***************************************************************************)
(* C34: UpdateSchemeManager publishes the new index as the scheme          *)
(* manager's in-memory index only after every new or changed file of that  *)
(* index has been fetched and verified; if the update returns an error at  *)
(* any step, the in-memory index is the same as before the call.           *)
(***************************************************************************)
C34_IndexPublishedLast ==
    [][(ret'.op = "UpdateSchemeManager" /\ ret'.id \in DOMAIN SchemeManagers) =>
          LET id == ret'.id
              old == SchemeManagers[id].index
              new == SchemeManagers'[id].index
          IN /\ id \in DOMAIN SchemeManagers'
             /\ ret'.err # "" => new = old
             /\ new # old =>
                   /\ ret'.err = ""
                   /\ new = storage'[id].indexed
                   /\ VerifySignature(storage'[id]) = ""
                   /\ \A f \in DOMAIN new \cap Paths :
                         (f \notin DOMAIN old \/ old[f] # new[f]) =>
                            /\ f \in ret'.written
                            /\ sha256(storage'[id].files[f]) = new[f]
      ]_vars

\* An update that fetched a changed file and published a new index.
C34_Witness ==
    /\ ret.op = "UpdateSchemeManager"
    /\ ret.err = ""
    /\ ret.id \in DOMAIN SchemeManagers
    /\ ret.written \cap Paths # {}
    /\ SchemeManagers[ret.id].index # ret.pre[ret.id].indexed
    /\ SchemeManagers[ret.id].index = storage[ret.id].indexed

(***************************************************************************)
(* C36: StopAutoUpdateSchemes cancels the autoupdater: once it has         *)
(* returned, no further run of UpdateSchemes is started by the             *)
(* autoupdater, including the kickoff run scheduled about 200 ms after     *)
(* AutoUpdateSchemes, whatever the delay between arming and stopping.      *)
(***************************************************************************)
\* StopAutoUpdateSchemes has returned after stopping the scheduler.
Stopped == /\ "scheduler" \in DOMAIN goroutines
           /\ goroutines["scheduler"].pc = "stopped"

C36_NoRunAfterStop ==
    [][Stopped =>
          \A g \in {"scheduler", "kickoff"} :
             ~(/\ goroutines[g].op # "UpdateSchemes"
               /\ goroutines'[g].op = "UpdateSchemes")
      ]_vars

(***************************************************************************)
(* C39: the in-memory index of a scheme manager, which                     *)
(* ReadAuthenticatedFile trusts, is only ever set to the parse of index    *)
(* bytes whose ECDSA signature was verified against the scheme's pk.pem in *)
(* the same operation (ParseSchemeManagerFolder, UpdateSchemeManager); it  *)
(* is never set from an index that failed or skipped verification, in any  *)
(* sequence of load, install and update operations.                        *)
(***************************************************************************)
\* The index file of the folder carries a signature made with the key of
\* its pk.pem.
SignedIndex(tree) ==
    /\ tree.exists
    /\ tree.index \notin {"missing", "malformed"}
    /\ tree.pk \in {"ok", "other"}
    /\ tree.sig = tree.pk

\* The managers whose in-memory index the step set: of a manager that is new
\* in the map, or to another index than it had.
IndexSet(id) ==
    /\ id \in DOMAIN SchemeManagers'
    /\ SchemeManagers'[id].index # NilIndex
    /\ \/ id \notin DOMAIN SchemeManagers
       \/ SchemeManagers[id].index # SchemeManagers'[id].index
       \/ ret'.op \in LoadCalls

C39_IndexOnlyFromVerifiedBytes ==
    [][\A id \in Schemes :
          IndexSet(id) => /\ SignedIndex(storage'[id])
                          /\ SchemeManagers'[id].index = storage'[id].indexed
      ]_vars

\* An update made a newly downloaded, signed index the index of the manager.
C39_Witness ==
    /\ ret.op = "UpdateSchemeManager"
    /\ ret.err = ""
    /\ ret.id \in DOMAIN SchemeManagers
    /\ SchemeManagers[ret.id].index # NilIndex
    /\ ret.pre[ret.id].indexed # storage[ret.id].indexed
    /\ SchemeManagers[ret.id].index = storage[ret.id].indexed
    /\ SignedIndex(storage[ret.id])

=============================================================================
